---- MODULE Spec2Model ----
(***************************************************************************)
(* A model of the Signal-protocol core of dtonda2/cs588-final-project:     *)
(*   - the Double Ratchet session of components/Algo/DoubleRatchetAlgo.tsx *)
(*     (class DoubleRatchet: initAlice, encrypt, decrypt, skipTo);         *)
(*   - the X3DH handshake of components/Algo/X3DHEncryptor.tsx             *)
(*     (class X3DHSession and the X3DHEncryptor component).                *)
(*                                                                         *)
(* Cryptography is symbolic.  A key is a term (a tagged tuple); HKDF,      *)
(* AES-GCM and ECDH are free, collision-free constructors over terms, so   *)
(* two keys are equal exactly when they were derived the same way from the *)
(* same inputs, and a key can be computed by an observer exactly when the  *)
(* inputs the code feeds to the derivation are known to the observer.      *)
(***************************************************************************)
EXTENDS Integers, Sequences, FiniteSets, TLC

(***************************************************************************)
(* Bounds of the model.                                                    *)
(***************************************************************************)
\* messages each party may encrypt
MaxSent == 2
\* calls (initAlice, encrypt, decrypt) made on the two ratchet sessions
MaxOps == 6
\* calls made in the runs that follow a session through several chains
MaxChainOps == 8
\* calls made in the runs that probe the skip limit with unauthenticated headers
MaxProbeOps == 3
\* distinct plaintexts
MaxPlain == 2
\* calls (deriveSession, deriveSessionFromRemote) made on the X3DHSessions
MaxXOps == 3
\* deriveSession calls made on the X3DHEncryptor components
MaxCompDerives == 2
\* calls (encrypt, decrypt, dhRatchet) made on the tweetnacl ratchet objects
MaxLibOps == 5
\* encrypt / decrypt calls a SecureMessage component starts
MaxTasks == 3
MaxIds == 2
MaxSeed == 2
MaxBindOps == 4
MaxStoreOps == 3
\* calls in a run that measures the work of decrypt
MaxWorkOps == 3
\* presses of the Sign button in a run
MaxPresses == 3
MaxGap == 2
MaxWireOps == 4
\* code units of a text, bytes of a buffer, handed to the XOR helpers
MaxLen == 2

(***************************************************************************)
(* Program constants.                                                      *)
(***************************************************************************)
MAX_SKIP == 1000

Party == {"A", "B"}
Peer(p) == IF p = "A" THEN "B" ELSE "A"
Plaintexts == 1..MaxPlain

(***************************************************************************)
(* Symbolic values.                                                        *)
(*   key pairs are numbered; the public key of pair k is k, and only the   *)
(*   holder of pair k can use its private half.  0 stands for an absent    *)
(*   key (null / not yet assigned).                                        *)
(***************************************************************************)
NULLKEY == 0
\* the responder's X3DH public key handed to initAlice (bobPub)
BobPub == 1
\* a public key chosen by a third party
EvePub == 2
\* first key pair generateDH() hands out
FirstFresh == 3

\* absent ArrayBuffer (null, or a field not yet assigned)
NULL == <<>>
\* the 32-byte secret both parties got from X3DH
SharedSecret == <<"SK">>

\* ECDH: DH(priv a, pub b) = DH(priv b, pub a)
DH(priv, pub) == {priv, pub}

(***************************************************************************)
(* KDF_RK: HKDF-SHA256 keyed with rootKey, salted with rootKey, info       *)
(* "DoubleRatchetRK", 64 bytes split in two.  The code imports rootKey as  *)
(* the HKDF key and never passes dhOut to any primitive.                   *)
(***************************************************************************)
KDF_RK(rootKey, dhOut) ==
  [rootKey  |-> <<"RK", rootKey>>,
   chainKey |-> <<"CK", rootKey, 0>>]

(***************************************************************************)
(* KDF_CK: HKDF-SHA256 keyed and salted with chainKey, info                *)
(* "DoubleRatchetCK".  <<"CK", r, i>> is the chain key reached from the    *)
(* chain key that KDF_RK made out of root r by i applications of KDF_CK;   *)
(* <<"MK", r, i>> is the message key of that i-th application.             *)
(***************************************************************************)
KDF_CK(chainKey) ==
  [chainKey   |-> <<"CK", chainKey[2], chainKey[3] + 1>>,
   messageKey |-> <<"MK", chainKey[2], chainKey[3]>>]

\* HEADER(dhPair, pn, n): the two counters and the raw public key
HEADER(dhPair, pn, n) == [pn |-> pn, n |-> n, dh |-> dhPair]

\* CONCAT(ad, header)
CONCAT(ad, header) == <<ad, header>>

\* encryptAEAD: AES-GCM under mk with additional data ad (the IV travels
\* with the ciphertext); `intact` is cleared when the bytes are altered.
encryptAEAD(mk, plaintext, ad) ==
  [mk |-> mk, pt |-> plaintext, ad |-> ad, intact |-> TRUE]

\* decryptAEAD succeeds exactly for an unaltered ciphertext made under the
\* same key and the same additional data
AEADOpens(mk, data, ad) == data.intact /\ data.mk = mk /\ data.ad = ad

(***************************************************************************)
(* class DoubleRatchet: the fields as the constructor leaves them.         *)
(* `skipped` is the Map keyed by the string `${PN}|${Nr}`.                 *)
(***************************************************************************)
NoSkipped == [k \in {} |-> NULL]

NewRatchet ==
  [dhs |-> NULLKEY, dhr |-> NULLKEY, rk |-> NULL, cks |-> NULL, ckr |-> NULL,
   Ns |-> 0, Nr |-> 0, PN |-> 0, skipped |-> NoSkipped]

\* initAlice without its last statement, this.skipped.clear()
initAliceKeepsSkipped(s, sharedSecret, bobPub, fresh) ==
  LET k == KDF_RK(sharedSecret, DH(fresh, bobPub))
  IN  [dhs |-> fresh, dhr |-> bobPub, rk |-> k.rootKey, cks |-> k.chainKey,
       ckr |-> NULL, Ns |-> 0, Nr |-> 0, PN |-> 0, skipped |-> s.skipped]

\* initAlice(sharedSecret, bobPub) with `fresh` the pair generateDH() returns
initAlice(s, sharedSecret, bobPub, fresh) ==
  LET k == KDF_RK(sharedSecret, DH(fresh, bobPub))
  IN  [dhs |-> fresh, dhr |-> bobPub, rk |-> k.rootKey, cks |-> k.chainKey,
       ckr |-> NULL, Ns |-> 0, Nr |-> 0, PN |-> 0, skipped |-> NoSkipped]

\* encrypt that keeps the chain key it derived the message key from
encryptKeepsChainKey(s, plaintext, associatedData) ==
  IF s.cks = NULL
  THEN [s |-> s, status |-> "NotInitialized", msg |-> NULL, mk |-> NULL]
  ELSE LET ckRes  == KDF_CK(s.cks)
           header == HEADER(s.dhs, s.PN, s.Ns)
           ad     == CONCAT(associatedData, header)
       IN  [s      |-> [s EXCEPT !.Ns = @ + 1],
            status |-> "ok",
            msg    |-> [header |-> header,
                        ciphertext |-> encryptAEAD(ckRes.messageKey, plaintext, ad)],
            mk     |-> ckRes.messageKey]

\* encrypt that counts the message before it looks for the chain key
encryptCountsFirst(s, plaintext, associatedData) ==
  IF s.cks = NULL
  THEN [s |-> [s EXCEPT !.Ns = @ + 1], status |-> "NotInitialized",
        msg |-> NULL, mk |-> NULL]
  ELSE LET ckRes  == KDF_CK(s.cks)
           header == HEADER(s.dhs, s.PN, s.Ns)
           ad     == CONCAT(associatedData, header)
       IN  [s      |-> [s EXCEPT !.cks = ckRes.chainKey, !.Ns = @ + 1],
            status |-> "ok",
            msg    |-> [header |-> header,
                        ciphertext |-> encryptAEAD(ckRes.messageKey, plaintext, ad)],
            mk     |-> ckRes.messageKey]

\* encrypt that starts a new count, as the DH ratchet step does
encryptStartsCount(s, plaintext, associatedData) ==
  IF s.cks = NULL
  THEN [s |-> s, status |-> "NotInitialized", msg |-> NULL, mk |-> NULL]
  ELSE LET ckRes  == KDF_CK(s.cks)
           header == HEADER(s.dhs, s.PN, s.Ns)
           ad     == CONCAT(associatedData, header)
       IN  [s      |-> [s EXCEPT !.cks = ckRes.chainKey, !.PN = s.Ns + 1,
                                 !.Ns = @ + 1],
            status |-> "ok",
            msg    |-> [header |-> header,
                        ciphertext |-> encryptAEAD(ckRes.messageKey, plaintext, ad)],
            mk     |-> ckRes.messageKey]

\* encrypt(plaintext, associatedData): the session after the call and what
\* the call returns or throws
encrypt(s, plaintext, associatedData) ==
  IF s.cks = NULL
  THEN [s |-> s, status |-> "NotInitialized", msg |-> NULL, mk |-> NULL]
  ELSE LET ckRes  == KDF_CK(s.cks)
           header == HEADER(s.dhs, s.PN, s.Ns)
           ad     == CONCAT(associatedData, header)
       IN  [s      |-> [s EXCEPT !.cks = ckRes.chainKey, !.Ns = @ + 1],
            status |-> "ok",
            msg    |-> [header |-> header,
                        ciphertext |-> encryptAEAD(ckRes.messageKey, plaintext, ad)],
            mk     |-> ckRes.messageKey]

\* the limit test allowing twice the distance
skipToThrowsLate(s, until) == s.Nr + 2 * MAX_SKIP < until

\* the limit test off by one
skipToThrowsAtLimit(s, until) == s.Nr + MAX_SKIP <= until

\* skipTo(until) throws before touching anything
skipToThrows(s, until) == s.Nr + MAX_SKIP < until

\* skipTo(until): the loop run to its end; iteration j stores the message
\* key of chain position ckr+j under the key `${PN}|${Nr+j}`
skipTo(s, until) ==
  IF s.Nr >= until THEN s
  ELSE LET new == {<<s.PN, i>> : i \in s.Nr..(until - 1)}
       IN  [s EXCEPT
              !.skipped = [k \in (DOMAIN s.skipped) \cup new |->
                             IF k[1] = s.PN /\ k[2] \in s.Nr..(until - 1)
                             THEN <<"MK", s.ckr[2], s.ckr[3] + (k[2] - s.Nr)>>
                             ELSE s.skipped[k]],
              !.ckr = <<"CK", s.ckr[2], s.ckr[3] + (until - s.Nr)>>,
              !.Nr = until]

\* decrypt, from "skip to message n" on
decryptTail(s, header, ciphertext, associatedData) ==
  IF s.ckr = NULL THEN [s |-> s, status |-> "RecvChainNotInit", pt |-> 0]
  ELSE IF skipToThrows(s, header.n)
  THEN [s |-> s, status |-> "TooManySkipped", pt |-> 0]
  ELSE LET s1    == skipTo(s, header.n)
           ckRes == KDF_CK(s1.ckr)
           s2    == [s1 EXCEPT !.ckr = ckRes.chainKey, !.Nr = @ + 1]
           ad    == CONCAT(associatedData, header)
       IN  IF AEADOpens(ckRes.messageKey, ciphertext, ad)
           THEN [s |-> s2, status |-> "ok", pt |-> ciphertext.pt]
           ELSE [s |-> s2, status |-> "AuthFail", pt |-> 0]

\* KDF_CK calls of one skipTo(until) that does not throw: one per turn of
\* its loop
skipToDerivations(s, until) == IF s.Nr < until THEN until - s.Nr ELSE 0

\* KDF_CK calls of decrypt from "skip to message n" on
decryptTailDerivations(s, header) ==
  IF s.ckr = NULL \/ skipToThrows(s, header.n) THEN 0
  ELSE skipToDerivations(s, header.n) + 1

\* KDF_CK calls of one decrypt(header, ...) on session s, up to its return
\* or throw
decryptDerivations(s, header) ==
  IF s.dhr = NULLKEY \/ header.dh # s.dhr
  THEN IF s.ckr # NULL /\ skipToThrows(s, header.pn) THEN 0
       ELSE LET old == IF s.ckr # NULL THEN skipToDerivations(s, header.pn)
                       ELSE 0
                s2  == [s EXCEPT !.Nr = 0,
                                 !.ckr = KDF_RK(s.rk, NULL).chainKey]
            IN  IF s.dhs = NULLKEY THEN old
                ELSE old + decryptTailDerivations(s2, header)
  ELSE decryptTailDerivations(s, header)

\* decrypt taking the DH ratchet step whatever key the header carries
decryptAlwaysSteps(s, header, ciphertext, associatedData, fresh) ==
  IF s.ckr # NULL /\ skipToThrows(s, header.pn)
  THEN [s |-> s, status |-> "TooManySkipped", pt |-> 0]
  ELSE LET s1 == IF s.ckr # NULL THEN skipTo(s, header.pn) ELSE s
           s2 == [s1 EXCEPT !.PN = s1.Ns, !.Ns = 0, !.Nr = 0,
                            !.dhr = header.dh]
       IN  IF s2.dhs = NULLKEY
           THEN [s |-> s2, status |-> "TypeError", pt |-> 0]
           ELSE LET k1 == KDF_RK(s2.rk, DH(s2.dhs, s2.dhr))
                    s3 == [s2 EXCEPT !.rk = k1.rootKey, !.ckr = k1.chainKey,
                                     !.dhs = fresh]
                    k2 == KDF_RK(s3.rk, DH(s3.dhs, s3.dhr))
                    s4 == [s3 EXCEPT !.rk = k2.rootKey, !.cks = k2.chainKey]
                IN  decryptTail(s4, header, ciphertext, associatedData)

\* decrypt(header, ciphertext, associatedData) with `fresh` the pair
\* generateDH() returns if the DH ratchet step gets that far
decrypt(s, header, ciphertext, associatedData, fresh) ==
  IF s.dhr = NULLKEY \/ header.dh # s.dhr
  THEN IF s.ckr # NULL /\ skipToThrows(s, header.pn)
       THEN [s |-> s, status |-> "TooManySkipped", pt |-> 0]
       ELSE LET s1 == IF s.ckr # NULL THEN skipTo(s, header.pn) ELSE s
                s2 == [s1 EXCEPT !.PN = s1.Ns, !.Ns = 0, !.Nr = 0,
                                 !.dhr = header.dh]
            IN  IF s2.dhs = NULLKEY
                THEN \* this.dhs is undefined: this.dhs.privateKey throws
                     [s |-> s2, status |-> "TypeError", pt |-> 0]
                ELSE LET k1 == KDF_RK(s2.rk, DH(s2.dhs, s2.dhr))
                         s3 == [s2 EXCEPT !.rk = k1.rootKey,
                                          !.ckr = k1.chainKey,
                                          !.dhs = fresh]
                         k2 == KDF_RK(s3.rk, DH(s3.dhs, s3.dhr))
                         s4 == [s3 EXCEPT !.rk = k2.rootKey,
                                          !.cks = k2.chainKey]
                     IN  decryptTail(s4, header, ciphertext, associatedData)
  ELSE decryptTail(s, header, ciphertext, associatedData)

(***************************************************************************)
(* The tweetnacl DoubleRatchet class (constructor, ratchetCK, dhRatchet,   *)
(* encrypt, decrypt).  Its HKDF calls: the constructor keys and salts with *)
(* the shared secret; ratchetCK keys and salts with the chain key;         *)
(* dhRatchet keys with the DH output and salts with the root key, which is *)
(* the term <<"IN", rk, dh>> from which root and chain key are cut.        *)
(***************************************************************************)
\* new DoubleRatchet(sharedSecret, ratchetPub), `fresh` the pair
\* nacl.box.keyPair() returns
NewLibRatchet(sharedSecret, ratchetPub, fresh) ==
  [rk |-> <<"RK", sharedSecret>>, cks |-> <<"CK", sharedSecret, 0>>,
   ckr |-> NULL, dhs |-> fresh, dhr |-> ratchetPub,
   Ns |-> 0, Nr |-> 0, PN |-> 0]

\* ratchetCK(chainKey)
ratchetCK(chainKey) ==
  [chainKey   |-> <<"CK", chainKey[2], chainKey[3] + 1>>,
   messageKey |-> <<"MK", chainKey[2], chainKey[3]>>]

\* dhRatchet(incomingPub)
dhRatchet(s, incomingPub, fresh) ==
  LET out1 == <<"IN", s.rk, DH(s.dhs, incomingPub)>>
      rk1  == <<"RK", out1>>
      out2 == <<"IN", rk1, DH(fresh, incomingPub)>>
  IN  [s EXCEPT !.PN = s.Ns, !.Ns = 0, !.Nr = 0, !.dhr = incomingPub,
                !.cks = <<"CK", out1, 0>>, !.dhs = fresh,
                !.rk = <<"RK", out2>>, !.ckr = <<"CK", out2, 0>>]

\* nacl.secretbox(plaintext, nonce, key), the nonce travelling with it
secretbox(plaintext, key) == [mk |-> key, pt |-> plaintext, intact |-> TRUE]
\* nacl.secretbox.open(cipher, nonce, key) returns the plaintext, else null
secretboxOpens(box, key) == box.intact /\ box.mk = key

\* a number stored in one element of a Uint8Array
Byte(n) == n % 256

\* the plaintext an empty Uint8Array is
EmptyBytes == 0

\* encrypt(plaintext): the session after the call, the payload returned
libEncrypt(s, plaintext) ==
  LET ck == ratchetCK(s.cks)
      s1 == [s EXCEPT !.cks = ck.chainKey, !.Ns = @ + 1]
  IN  [s |-> s1,
       payload |-> [dh |-> s1.dhs, ns |-> Byte(s1.Ns), pn |-> Byte(s1.PN),
                    box |-> secretbox(plaintext, ck.messageKey)],
       mk |-> ck.messageKey]

\* decrypt(payload) with both chains left where they were
libDecryptKeepsChain(s, payload, fresh) ==
  LET mk == ratchetCK(IF s.ckr = NULL THEN s.cks ELSE s.ckr).messageKey
  IN  IF secretboxOpens(payload.box, mk)
      THEN [s |-> s, status |-> "ok", pt |-> payload.box.pt]
      ELSE [s |-> s, status |-> "empty", pt |-> EmptyBytes]

\* decrypt(payload): the session after the call, and what the promise
\* resolves to ("empty": a warning was logged and an empty array returned)
libDecrypt(s, payload, fresh) ==
  LET viaSending == s.ckr = NULL
      s1 == IF ~viaSending /\ payload.dh # s.dhr
            THEN dhRatchet(s, payload.dh, fresh) ELSE s
      ck == IF viaSending THEN ratchetCK(s1.cks) ELSE ratchetCK(s1.ckr)
      s2 == IF viaSending
            THEN [s1 EXCEPT !.cks = ck.chainKey, !.Nr = @ + 1]
            ELSE [s1 EXCEPT !.ckr = ck.chainKey, !.Nr = @ + 1]
  IN  IF secretboxOpens(payload.box, ck.messageKey)
      THEN [s |-> s2, status |-> "ok", pt |-> payload.box.pt]
      ELSE [s |-> s2, status |-> "empty", pt |-> EmptyBytes]

(***************************************************************************)
(* X3DH: class X3DHSession (tweetnacl keys, HKDF of @stablelib).           *)
(* A key pair is named by its owner, its role and its number; the public   *)
(* key of a pair carries the same name.                                    *)
(***************************************************************************)
\* one-time pre-key pairs the constructor makes
NumOTP == 5

NONE == <<>>
EdPair(p) == <<p, "ed", 0>>
DhPair(p) == <<p, "dh", 0>>
SpPair(p) == <<p, "sp", 0>>
OtpPair(p, i) == <<p, "otp", i>>
EphPair(n) == <<"-", "eph", n>>
\* new Uint8Array(32): the all-zero block that stands in for a missing DH4
\* (32 bytes, like a DH output, and the output of no DH)
ZeroBlock == {<<"-", "zero", 0>>}

\* sodium.to_base64 / sodium.from_base64 (ORIGINAL variant)
ToBase64(bytes) == <<"base64", bytes>>
FromBase64(text) == text[2]

\* signMessage(msg, secretKey): crypto_sign_detached, Base64-encoded
signMessage(msg, secretKey) == ToBase64([msg |-> msg, by |-> secretKey])

\* a verification that looks at the signer only
verifyAnyMessage(msg, signature, publicKey) ==
  FromBase64(signature).by = publicKey

\* verifyMessage(msg, signature, publicKey): crypto_sign_verify_detached
verifyMessage(msg, signature, publicKey) ==
  LET sig == FromBase64(signature)
  IN  sig.msg = msg /\ sig.by = publicKey

\* generateIdentityKeypair(): crypto_sign_seed_keypair of a random seed; the
\* pair is one term, as everywhere, and stands for either half
generateIdentityKeypair(seed) ==
  [publicKey |-> <<"-", "ed", seed>>, secretKey |-> <<"-", "ed", seed>>]

\* the key no party holds
NoKey == <<"-", "none", 0>>

\* a signature string with bytes of the signature changed: Base64 of 64
\* bytes that are the signature of nothing
Altered(signature) ==
  ToBase64([msg |-> FromBase64(signature).msg, by |-> NoKey])

\* HKDF(SHA256, ikm, salt = 32 zero bytes, info = "X3DH-Session").expand(32)
X3DH_HKDF(ikm) == <<"X3DH-Session", ikm>>

\* new X3DHSession(verifyFn)
NewX3DHSession(p) ==
  [edPair |-> EdPair(p), dhPair |-> DhPair(p), spPair |-> SpPair(p),
   otpPairs |-> [i \in 1..NumOTP |-> OtpPair(p, i)],
   sessionKey |-> NULL]

\* X3DHSession.deriveSession(bundle), `fresh` being the pair
\* nacl.box.keyPair() returns when the bundle brings no ephemeral pair
deriveSession(x, bundle, fresh) ==
  IF ~verifyMessage(bundle.spPub, bundle.spSig, bundle.edPub)
  THEN [x |-> x, status |-> "InvalidSPKSignature"]
  ELSE LET eph == IF bundle.ephKeypair # NONE THEN bundle.ephKeypair ELSE fresh
           dh1 == DH(x.dhPair, bundle.spPub)
           dh2 == DH(eph, bundle.dhPub)
           dh3 == DH(eph, bundle.spPub)
           dh4 == IF bundle.otpPub # NONE THEN DH(eph, bundle.otpPub)
                  ELSE ZeroBlock
       IN  [x |-> [x EXCEPT !.sessionKey = X3DH_HKDF(<<dh1, dh2, dh3, dh4>>)],
            status |-> "ok"]

\* X3DHSession.deriveSessionFromRemote(remote)
deriveSessionFromRemote(x, remote) ==
  IF ~verifyMessage(remote.spPub, remote.spSig, remote.edPub)
  THEN [x |-> x, status |-> "InvalidSPKSignature", otp |-> NONE]
  ELSE LET dh1 == DH(x.spPair, remote.dhPub)
           dh2 == DH(x.dhPair, remote.ephPub)
           dh3 == DH(x.spPair, remote.ephPub)
           dh4 == IF remote.otpPub # NONE THEN DH(x.otpPairs[1], remote.ephPub)
                  ELSE ZeroBlock
       IN  [x |-> [x EXCEPT !.sessionKey = X3DH_HKDF(<<dh1, dh2, dh3, dh4>>)],
            status |-> "ok",
            otp |-> IF remote.otpPub # NONE THEN x.otpPairs[1] ELSE NONE]

\* getSessionKey()
getSessionKey(x) ==
  IF x.sessionKey = NULL THEN [status |-> "SessionNotDerived", key |-> NULL]
  ELSE [status |-> "ok", key |-> x.sessionKey]

(***************************************************************************)
(* The XOR helpers of components/Algo/XEdDSA-and-VXEdDSA.tsx               *)
(* (useEncryptDecrypt).  A string is the sequence of its UTF-16 code       *)
(* units, a Uint8Array the sequence of its bytes, a Base64 string the      *)
(* sequence of its characters, each named by its 6-bit value.              *)
(***************************************************************************)
\* U+FEFF, the byte order mark, and U+FFFD, the replacement character
BOM == 65279
REPLACEMENT == 65533
\* the character "=" of a Base64 string
PAD == 64

\* a surrogate code unit; the strings of this model hold no second half, so
\* every surrogate in them is a lone one
IsSurrogate(u) == u >= 55296 /\ u <= 57343

\* the UTF-8 bytes of one code point
Utf8(cp) ==
  IF cp < 128 THEN <<cp>>
  ELSE IF cp < 2048 THEN <<192 + (cp \div 64), 128 + (cp % 64)>>
  ELSE <<224 + (cp \div 4096), 128 + ((cp \div 64) % 64), 128 + (cp % 64)>>

\* stringToUint8Array: TextEncoder.encode, which writes U+FFFD for a lone
\* surrogate
RECURSIVE stringToUint8Array(_)
stringToUint8Array(str) ==
  IF str = <<>> THEN <<>>
  ELSE Utf8(IF IsSurrogate(Head(str)) THEN REPLACEMENT ELSE Head(str))
         \o stringToUint8Array(Tail(str))

\* the code points of a UTF-8 byte sequence; a byte that starts no complete
\* sequence becomes U+FFFD
RECURSIVE Utf8Decode(_)
Utf8Decode(bytes) ==
  IF bytes = <<>> THEN <<>>
  ELSE LET b == Head(bytes)
       IN  IF b < 128 THEN <<b>> \o Utf8Decode(Tail(bytes))
           ELSE IF b >= 194 /\ b < 224 /\ Len(bytes) >= 2
                   /\ bytes[2] \div 64 = 2
           THEN <<(b - 192) * 64 + (bytes[2] % 64)>>
                  \o Utf8Decode(SubSeq(bytes, 3, Len(bytes)))
           ELSE IF b >= 224 /\ b < 240 /\ Len(bytes) >= 3
                   /\ bytes[2] \div 64 = 2 /\ bytes[3] \div 64 = 2
                   /\ (b - 224) * 4096 + (bytes[2] % 64) * 64 >= 2048
                   /\ ~IsSurrogate((b - 224) * 4096 + (bytes[2] % 64) * 64
                                     + (bytes[3] % 64))
           THEN <<(b - 224) * 4096 + (bytes[2] % 64) * 64 + (bytes[3] % 64)>>
                  \o Utf8Decode(SubSeq(bytes, 4, Len(bytes)))
           ELSE <<REPLACEMENT>> \o Utf8Decode(Tail(bytes))

\* uint8ArrayToString: TextDecoder.decode with the default options, which
\* drops a byte order mark at the start of the input
uint8ArrayToString(uint8array) ==
  LET cps == Utf8Decode(uint8array)
  IN  IF cps # <<>> /\ Head(cps) = BOM THEN Tail(cps) ELSE cps

\* uint8ArrayToBase64: btoa of the bytes
RECURSIVE uint8ArrayToBase64(_)
uint8ArrayToBase64(b) ==
  IF Len(b) = 0 THEN <<>>
  ELSE IF Len(b) = 1
  THEN <<b[1] \div 4, (b[1] % 4) * 16, PAD, PAD>>
  ELSE IF Len(b) = 2
  THEN <<b[1] \div 4, (b[1] % 4) * 16 + (b[2] \div 16), (b[2] % 16) * 4, PAD>>
  ELSE <<b[1] \div 4, (b[1] % 4) * 16 + (b[2] \div 16),
         (b[2] % 16) * 4 + (b[3] \div 64), b[3] % 64>>
         \o uint8ArrayToBase64(SubSeq(b, 4, Len(b)))

\* base64ToUint8Array: atob, one byte per character of its result
RECURSIVE base64ToUint8Array(_)
base64ToUint8Array(c) ==
  IF Len(c) < 4 THEN <<>>
  ELSE LET b1 == c[1] * 4 + (c[2] \div 16)
           b2 == (c[2] % 16) * 16 + (c[3] \div 4)
           b3 == (c[3] % 4) * 64 + c[4]
       IN  IF c[3] = PAD THEN <<b1>>
           ELSE IF c[4] = PAD THEN <<b1, b2>>
           ELSE <<b1, b2, b3>> \o base64ToUint8Array(SubSeq(c, 5, Len(c)))

\* a ^ b on the low n bits
RECURSIVE BitXor(_, _, _)
BitXor(a, b, n) ==
  IF n = 0 THEN 0
  ELSE (((a % 2) + (b % 2)) % 2) + 2 * BitXor(a \div 2, b \div 2, n - 1)

\* xorEncryptData(dataUint8, keyUint8), the key not empty
xorEncryptData(dataUint8, keyUint8) ==
  [i \in 1..Len(dataUint8) |->
     BitXor(dataUint8[i], keyUint8[((i - 1) % Len(keyUint8)) + 1], 8)]

\* encryptText(plaintext, key); !key holds for "" as for undefined
encryptText(plaintext, key) ==
  IF key = <<>> THEN [status |-> "KeyRequired", out |-> <<>>]
  ELSE [status |-> "ok",
        out |-> uint8ArrayToBase64(
                  xorEncryptData(stringToUint8Array(plaintext),
                                 stringToUint8Array(key)))]

\* decryptText(ciphertext, key)
decryptText(ciphertext, key) ==
  IF key = <<>> THEN [status |-> "KeyRequired", out |-> <<>>]
  ELSE [status |-> "ok",
        out |-> uint8ArrayToString(
                  xorEncryptData(base64ToUint8Array(ciphertext),
                                 stringToUint8Array(key)))]

\* encryptArrayBuffer(buffer, key)
encryptArrayBuffer(buffer, key) ==
  IF key = <<>> THEN [status |-> "KeyRequired", out |-> <<>>]
  ELSE [status |-> "ok",
        out |-> xorEncryptData(buffer, stringToUint8Array(key))]

\* decryptArrayBuffer(buffer, key)
decryptArrayBuffer(buffer, key) ==
  IF key = <<>> THEN [status |-> "KeyRequired", out |-> <<>>]
  ELSE [status |-> "ok",
        out |-> xorEncryptData(buffer, stringToUint8Array(key))]

(***************************************************************************)
(* EncryptMessage.tsx: Ed25519 helpers over Web Crypto, and SignComponent. *)
(* A key pair is named by its number; a signature names the message and    *)
(* the private key it was made with.                                       *)
(***************************************************************************)
\* generateKeyPair(): the n-th pair, both keys exported and Base64-encoded
generateKeyPair(n) ==
  [publicKey |-> <<"spki", n>>, privateKey |-> <<"pkcs8", n>>]

\* signMessage(message, privateKeyBase64) of EncryptMessage.tsx
SignComponent_signMessage(message, privateKeyBase64) ==
  [msg |-> message, by |-> privateKeyBase64]

\* the three useState values of a SignComponent just mounted
NewSignComponent == [message |-> "", signedMessages |-> <<>>, keys |-> NULL]

(***************************************************************************)
(* What an observer holding the set K of terms can compute: every          *)
(* derivation above is one-way, and goes from a root key to the next root  *)
(* key and its chain key, and from a chain key to the later chain keys and *)
(* message keys of the same chain.                                         *)
(***************************************************************************)
RECURSIVE CanDerive(_, _)
CanDerive(K, t) ==
  \/ t \in K
  \/ /\ t # NULL
     /\ \/ t[1] = "RK" /\ CanDerive(K, t[2])
        \/ /\ t[1] = "IN"
           /\ CanDerive(K, t[2])
           /\ \E k \in t[3] : <<"PRIV", k>> \in K
        \/ /\ t[1] \in {"CK", "MK"}
           /\ \/ \E j \in 0..t[3] : <<"CK", t[2], j>> \in K
              \/ CanDerive(K, t[2])

\* everything a session object holds
StateKnowledge(s) ==
  ({s.rk, s.cks, s.ckr} \ {NULL})
    \cup {s.skipped[k] : k \in DOMAIN s.skipped}
    \cup (IF s.dhs = NULLKEY THEN {} ELSE {<<"PRIV", s.dhs>>})

\* everything an object of the tweetnacl class holds
LibKnowledge(s) == ({s.rk, s.cks, s.ckr} \ {NULL}) \cup {<<"PRIV", s.dhs>>}

(***************************************************************************)
(* X3DH over WebCrypto: the X3DHEncryptor component.  A CryptoKey is an      *)
(* object: two imports of the same bytes are two objects, and !== tells     *)
(* them apart.  `obj` numbers the objects one component has created.        *)
(***************************************************************************)
\* one-time pre-keys the mount effect generates
NumPrekeys == 5

CryptoKey(obj, raw) == [obj |-> obj, raw |-> raw]
\* subtle.generateKey: a pair of new objects
genKeyPair(obj, raw) ==
  [publicKey |-> CryptoKey(obj, raw), privateKey |-> CryptoKey(obj + 1, raw)]
exportRaw(key) == key.raw
importECDH(raw, obj) == CryptoKey(obj, raw)
deriveBits(priv, pub) == DH(priv.raw, pub.raw)
\* subtle.sign / subtle.verify with ECDSA P-256, SHA-256
ECDSASign(privateKey, data) == [msg |-> data, by |-> privateKey.raw]
ECDSAVerify(publicKey, signature, data) ==
  signature.msg = data /\ signature.by = publicKey.raw
\* new ArrayBuffer(0): no bytes at all
EmptyBuffer == {}
\* the DH outputs copied one after the other; an empty one adds nothing
ConcatSecrets(a1, a2, a3, a4) ==
  <<a1, a2, a3>> \o (IF a4 = EmptyBuffer THEN <<>> ELSE <<a4>>)
\* HKDF(SHA-256, salt = 32 zero bytes, info = "X3DH-WebCrypto") -> AES-GCM key
deriveAESGCM(master) == <<"X3DH-WebCrypto", master>>

\* the component's state after its first render
NewComponent ==
  [idECDH |-> NULL, idECDSA |-> NULL, spECDH |-> NULL, spSig |-> NULL,
   oneTimePrekeys |-> <<>>, sessionKey |-> NULL, boot |-> 0, objs |-> 0]

\* the next state update of the key-initialisation effect of component p
initKeysStep(c, p) ==
  LET o == c.objs + 1
  IN  CASE c.boot = 0 ->
             [c EXCEPT !.idECDH = genKeyPair(o, <<p, "id", 0>>),
                       !.boot = 1, !.objs = o + 1]
        [] c.boot = 1 ->
             [c EXCEPT !.idECDSA = genKeyPair(o, <<p, "sig", 0>>),
                       !.boot = 2, !.objs = o + 1]
        [] c.boot = 2 ->
             [c EXCEPT !.spECDH = genKeyPair(o, <<p, "spk", 0>>),
                       !.boot = 3, !.objs = o + 1]
        [] c.boot = 3 ->
             [c EXCEPT !.spSig = ECDSASign(c.idECDSA.privateKey,
                                           exportRaw(c.spECDH.publicKey)),
                       !.boot = 4]
        [] OTHER ->
             [c EXCEPT !.oneTimePrekeys =
                          [i \in 1..NumPrekeys |->
                             genKeyPair(c.objs + 2 * i - 1, <<p, "opk", i>>)],
                       !.boot = 5, !.objs = c.objs + 2 * NumPrekeys]

\* the component's deriveSession(bundle); ephRaw is the key material of the
\* ephemeral pair genECDH() makes
X3DHEncryptor_deriveSession(c, bundle, ephRaw) ==
  IF c.idECDH = NULL \/ c.idECDSA = NULL
  THEN [c |-> c, status |-> "KeysNotInitialized"]
  ELSE IF ~ECDSAVerify(c.idECDSA.publicKey, bundle.spSig, bundle.spRaw)
  THEN [c |-> c, status |-> "InvalidPrekeySignature"]
  ELSE LET peerIdKey == importECDH(bundle.idRaw, c.objs + 1)
           peerSpKey == importECDH(bundle.spRaw, c.objs + 2)
           dh1 == deriveBits(c.idECDH.privateKey, peerSpKey)
           ephKP == genKeyPair(c.objs + 3, ephRaw)
           dh2 == deriveBits(ephKP.privateKey, peerIdKey)
           dh3 == deriveBits(ephKP.privateKey, peerSpKey)
           withOtp == bundle.otpRaw # NONE
           dh4 == IF withOtp
                  THEN deriveBits(ephKP.privateKey,
                                  importECDH(bundle.otpRaw, c.objs + 5))
                  ELSE EmptyBuffer
           kept(kp) == kp.publicKey.obj # peerSpKey.obj
       IN  [c |-> [c EXCEPT
                     !.oneTimePrekeys = IF withOtp THEN SelectSeq(@, kept) ELSE @,
                     !.sessionKey = deriveAESGCM(ConcatSecrets(dh1, dh2, dh3, dh4)),
                     !.objs = IF withOtp THEN @ + 5 ELSE @ + 4],
            status |-> "ok"]

(***************************************************************************)
(* State.                                                                  *)
(***************************************************************************)
VARIABLES
  sess,       \* the DoubleRatchet object of each party
  nextKey,    \* the key pair the next generateDH() returns
  sent,       \* the EncryptedMessages each party's encrypt returned, in order
  rcvd,       \* for each party, which of the peer's messages its decrypt calls
              \* were handed, in call order (0: bytes the peer never sent)
  opened,     \* the messages each party's decrypt calls decrypted
              \* successfully, in call order
  inits,      \* how often initAlice ran on each party's object
  sentKeys,   \* message keys a party's encrypt used since its initAlice
  last,       \* the last call: its arguments, the session before, its outcome
  ops,        \* calls made so far
  leaked,     \* what a compromise of one session revealed, and whose it was
  ratcheted,  \* who completed a DH ratchet step since the compromise
  lateKeys,   \* message keys used by encrypt after both did
  xs,         \* the X3DHSession object of each party
  hs,         \* initial messages sent: the RemoteBundle, and the session key
              \* the initiator's getSessionKey() returned for it
  otpUses,    \* for each party, the one-time pre-keys its derivations as
              \* responder used, in order
  xlast,      \* the last X3DHSession call and its outcome
  nextEph,    \* the ephemeral pair the next nacl.box.keyPair() returns
  xops,       \* X3DHSession calls made so far
  comp,       \* the X3DHEncryptor component of each party
  clast,      \* the last deriveSession call on a component and its outcome
  cops,       \* deriveSession calls made on components so far
  lib,        \* each party's object of the tweetnacl DoubleRatchet class
  lnext,      \* the key pair its next nacl.box.keyPair() returns
  lsent,      \* what each party's encrypt returned, in order
  lrcvd,      \* which of the peer's payloads each party's decrypt calls
              \* were handed, in call order (0: an altered payload)
  lopened,    \* the payloads each party's decrypt calls opened, in call
              \* order
  lkeys,      \* message keys each party's encrypt used
  llast,      \* the last call on these objects and its outcome
  lops,       \* calls made on these objects so far
  smr,        \* the ratchet a SecureMessage component was given
  tasks,      \* the encrypt / decrypt calls the component started, each
              \* with the point it has reached and the values it holds
  out,        \* the messages the component handed to onSend, in order
  ids,        \* the key pairs generateIdentityKeypair returned, in order
  signed,     \* the signMessage calls made: message, signer, signature
  vlast,      \* the last verifyMessage call and what it returned
  elast,      \* the last call of an XOR helper: what it was given, what it
              \* returned, and the plain input the data came from
  sc,         \* SignComponent: the state its current render shows
  sct,        \* the handleSign calls made, each with the values its render
              \* closed over and the point it has reached
  scout       \* what the component handed to onKeyPair and to onSign

ratchetVars == <<sess, nextKey, sent, rcvd, opened, inits, sentKeys, last, ops,
                 leaked, ratcheted, lateKeys>>
x3dhVars == <<xs, hs, otpUses, xlast, nextEph, xops>>
compVars == <<comp, clast, cops>>
libVars == <<lib, lnext, lsent, lrcvd, lopened, lkeys, llast, lops>>
uiVars == <<smr, tasks, out>>
sigVars == <<ids, signed, vlast>>
xorVars == <<elast>>
scVars == <<sc, sct, scout>>
vars == <<ratchetVars, x3dhVars, compVars, libVars, uiVars, sigVars, xorVars, scVars>>

NoHeader == [pn |-> 0, n |-> 0, dh |-> NULLKEY]
NoCall ==
  [op |-> "none", who |-> "A", status |-> "none", pt |-> 0, idx |-> 0,
   header |-> NoHeader, sentPt |-> 0, pre |-> NewRatchet]
NoLeak == [who |-> "none", know |-> {}]
NoXCall ==
  [op |-> "none", who |-> "A", status |-> "none", ownerSigned |-> TRUE,
   keyBefore |-> NULL, hsIdx |-> 0]
NoLibCall ==
  [op |-> "none", who |-> "A", status |-> "none", pt |-> 0, idx |-> 0,
   sentPt |-> 0, pre |-> NewLibRatchet(SharedSecret, BobPub, FirstFresh)]
NoVerify ==
  [op |-> "none", msg |-> 0, sig |-> ToBase64([msg |-> 0, by |-> NoKey]),
   pk |-> NoKey, result |-> FALSE]
NoXorCall ==
  [op |-> "none", plain |-> <<>>, key |-> <<>>, status |-> "none",
   out |-> <<>>]
NoCCall ==
  [op |-> "none", who |-> "A", status |-> "none", ownerSigned |-> TRUE,
   keyBefore |-> NULL, otpRaw |-> NONE]

Init ==
  /\ sess = [p \in Party |-> NewRatchet]
  /\ nextKey = FirstFresh
  /\ sent = [p \in Party |-> <<>>]
  /\ rcvd = [p \in Party |-> <<>>]
  /\ opened = [p \in Party |-> <<>>]
  /\ inits = [p \in Party |-> 0]
  /\ sentKeys = [p \in Party |-> {}]
  /\ last = NoCall
  /\ ops = 0
  /\ leaked = NoLeak
  /\ ratcheted = [p \in Party |-> FALSE]
  /\ lateKeys = {}
  /\ xs = [p \in Party |-> NewX3DHSession(p)]
  /\ hs = <<>>
  /\ otpUses = [p \in Party |-> <<>>]
  /\ xlast = NoXCall
  /\ nextEph = 1
  /\ xops = 0
  /\ comp = [p \in Party |-> NewComponent]
  /\ clast = NoCCall
  /\ cops = 0
  /\ lib = [p \in Party |->
             NewLibRatchet(SharedSecret, BobPub,
                           IF p = "A" THEN FirstFresh ELSE FirstFresh + 1)]
  /\ lnext = FirstFresh + 2
  /\ lsent = [p \in Party |-> <<>>]
  /\ lrcvd = [p \in Party |-> <<>>]
  /\ lopened = [p \in Party |-> <<>>]
  /\ lkeys = [p \in Party |-> {}]
  /\ llast = NoLibCall
  /\ lops = 0
  /\ smr = initAlice(NewRatchet, SharedSecret, BobPub, FirstFresh)
  /\ tasks = <<>>
  /\ out = <<>>
  /\ ids = <<>>
  /\ signed = {}
  /\ vlast = NoVerify
  /\ elast = NoXorCall
  /\ sc = NewSignComponent
  /\ sct = <<>>
  /\ scout = [onKeyPair |-> <<>>, onSign |-> <<>>]

\* a caller runs initAlice(sharedSecret, bobPub) on party p's object
InitAlice(p, bobPub) ==
  /\ sess' = [sess EXCEPT ![p] = initAlice(sess[p], SharedSecret, bobPub, nextKey)]
  /\ nextKey' = nextKey + 1
  /\ inits' = [inits EXCEPT ![p] = @ + 1]
  /\ sentKeys' = [sentKeys EXCEPT ![p] = {}]
  /\ last' = [NoCall EXCEPT !.op = "initAlice", !.who = p, !.status = "ok",
                            !.pre = sess[p]]
  /\ ops' = ops + 1
  /\ UNCHANGED <<sent, rcvd, opened, leaked, ratcheted, lateKeys, x3dhVars, compVars, libVars, uiVars, sigVars, xorVars, scVars>>

\* party p calls encrypt(plaintext) (associatedData left at its default)
Encrypt(p, plaintext) ==
  /\ Len(sent[p]) < MaxSent
  /\ LET r == encrypt(sess[p], plaintext, <<>>)
     IN  /\ sess' = [sess EXCEPT ![p] = r.s]
         /\ sent' = IF r.status = "ok"
                    THEN [sent EXCEPT ![p] = Append(@, r.msg)] ELSE sent
         /\ sentKeys' = IF r.status = "ok"
                        THEN [sentKeys EXCEPT ![p] = @ \cup {r.mk}] ELSE sentKeys
         /\ lateKeys' = IF r.status = "ok" /\ \A q \in Party : ratcheted[q]
                        THEN lateKeys \cup {r.mk} ELSE lateKeys
         /\ last' = [NoCall EXCEPT !.op = "encrypt", !.who = p,
                                   !.status = r.status, !.sentPt = plaintext,
                                   !.pre = sess[p]]
  /\ ops' = ops + 1
  /\ UNCHANGED <<nextKey, rcvd, opened, inits, leaked, ratcheted, x3dhVars, compVars, libVars, uiVars, sigVars, xorVars, scVars>>

\* party p calls decrypt(header, ciphertext); idx is the position of the
\* message among those its peer sent (0 for bytes the peer never sent)
Decrypt(p, header, ciphertext, idx) ==
  /\ LET r == decrypt(sess[p], header, ciphertext, <<>>, nextKey)
         stepped == r.s.dhs # sess[p].dhs
     IN  /\ sess' = [sess EXCEPT ![p] = r.s]
         /\ nextKey' = IF stepped THEN nextKey + 1 ELSE nextKey
         /\ ratcheted' = IF stepped /\ leaked # NoLeak
                         THEN [ratcheted EXCEPT ![p] = TRUE] ELSE ratcheted
         /\ last' = [op |-> "decrypt", who |-> p, status |-> r.status,
                     pt |-> r.pt, idx |-> idx, header |-> header,
                     sentPt |-> ciphertext.pt, pre |-> sess[p]]
  /\ rcvd' = [rcvd EXCEPT ![p] = Append(@, idx)]
  /\ opened' = IF decrypt(sess[p], header, ciphertext, <<>>, nextKey).status = "ok"
               THEN [opened EXCEPT ![p] =
                       Append(@, [header |-> header, ciphertext |-> ciphertext])]
               ELSE opened
  /\ ops' = ops + 1
  /\ UNCHANGED <<sent, inits, sentKeys, leaked, lateKeys, x3dhVars, compVars, libVars, uiVars, sigVars, xorVars, scVars>>

\* a message of the peer arrives as it was sent (in order, late, or again)
Deliver(p) ==
  \E i \in 1..Len(sent[Peer(p)]) :
    Decrypt(p, sent[Peer(p)][i].header, sent[Peer(p)][i].ciphertext, i)

\* a message of the peer arrives with its ciphertext bytes altered
Corrupt(m) == [m EXCEPT !.ciphertext.intact = FALSE]
DeliverCorrupted(p) ==
  \E i \in 1..Len(sent[Peer(p)]) :
    Decrypt(p, sent[Peer(p)][i].header, Corrupt(sent[Peer(p)][i]).ciphertext, 0)

\* the keys initAlice may be given as bobPub: the responder's X3DH key, or
\* the ratchet key the peer currently sends under
InitKeys(p) == {BobPub} \cup ({sess[Peer(p)].dhs} \ {NULLKEY})

Next ==
  \/ \E p \in Party : \E k \in InitKeys(p) : ops < MaxOps /\ InitAlice(p, k)
  \/ \E p \in Party : \E pt \in Plaintexts : ops < MaxOps /\ Encrypt(p, pt)
  \/ \E p \in Party : ops < MaxOps /\ Deliver(p)
  \/ \E p \in Party : ops < MaxOps /\ DeliverCorrupted(p)

Spec == Init /\ [][Next]_vars

(***************************************************************************)
(* Longer runs with genuine traffic only, so that a sender gets through    *)
(* two sending chains and the receiver through two receiving chains.       *)
(***************************************************************************)
NextChains ==
  \/ \E p \in Party : ops < MaxChainOps /\ InitAlice(p, BobPub)
  \/ \E p \in Party : ops < MaxChainOps /\ Encrypt(p, 1)
  \/ \E p \in Party : ops < MaxChainOps /\ Deliver(p)

SpecChains == Init /\ [][NextChains]_vars

(***************************************************************************)
(* The same runs with one compromise: at some point everything one session *)
(* object holds becomes known to an observer.                              *)
(***************************************************************************)
Leak(p) ==
  /\ leaked = NoLeak
  /\ sess[p].dhs # NULLKEY
  /\ leaked' = [who |-> p, know |-> StateKnowledge(sess[p])]
  /\ UNCHANGED <<sess, nextKey, sent, rcvd, opened, inits, sentKeys, last, ops,
                 ratcheted, lateKeys, x3dhVars, compVars, libVars, uiVars, sigVars, xorVars, scVars>>

NextLeak ==
  \/ NextChains
  \/ \E p \in Party : Leak(p)

SpecLeak == Init /\ [][NextLeak]_vars

(***************************************************************************)
(* Runs that hand decrypt headers nobody authenticated yet: the counters   *)
(* of a header are read and acted on before the ciphertext is opened, so   *)
(* any header reaches skipTo.                                              *)
(***************************************************************************)
Junk == [mk |-> NULL, pt |-> 0, ad |-> NULL, intact |-> FALSE]

ProbePN(s) == {0, s.Nr + MAX_SKIP + 1}
ProbeN(s) == {0, s.Nr + MAX_SKIP, s.Nr + MAX_SKIP + 1, MAX_SKIP + 1}
ProbeHeaders(s) ==
  {HEADER(k, pn, n) : k \in {BobPub, EvePub}, pn \in ProbePN(s), n \in ProbeN(s)}

Probe(p) ==
  \E h \in ProbeHeaders(sess[p]) : Decrypt(p, h, Junk, 0)

NextProbe ==
  \/ \E p \in Party : ops < MaxProbeOps /\ InitAlice(p, BobPub)
  \/ \E p \in Party : ops < MaxProbeOps /\ Probe(p)

SpecProbe == Init /\ [][NextProbe]_vars

(***************************************************************************)
(* The same with small gaps: headers that make decrypt jump a message or   *)
(* two ahead, under the peer key the session holds or under another one.   *)
(***************************************************************************)
GapHeaders ==
  {HEADER(k, pn, n) : k \in {BobPub, EvePub}, pn \in 0..1, n \in 0..MaxGap}

ProbeGap(p) == \E h \in GapHeaders : Decrypt(p, h, Junk, 0)

NextStore ==
  \/ \E p \in Party : ops < MaxStoreOps /\ InitAlice(p, BobPub)
  \/ \E p \in Party : ops < MaxStoreOps /\ ProbeGap(p)

SpecStore == Init /\ [][NextStore]_vars

\* headers that ask for as many chain steps as the limit allows, and for one
\* more, in the previous chain and in the new one
WorkPN(s) == {0, s.Nr + MAX_SKIP, s.Nr + MAX_SKIP + 1}
WorkN(s) == {0, MAX_SKIP, MAX_SKIP + 1, s.Nr + MAX_SKIP}
WorkHeaders(s) ==
  {HEADER(k, pn, n) : k \in {BobPub, EvePub}, pn \in WorkPN(s), n \in WorkN(s)}

ProbeWork(p) == \E h \in WorkHeaders(sess[p]) : Decrypt(p, h, Junk, 0)

NextWork ==
  \/ \E p \in Party : ops < MaxWorkOps /\ InitAlice(p, BobPub)
  \/ \E p \in Party : ops < MaxWorkOps /\ ProbeWork(p)

SpecWork == Init /\ [][NextWork]_vars

(***************************************************************************)
(* X3DH handshakes between the two X3DHSession objects.                    *)
(***************************************************************************)
\* was this signature made with q's Ed25519 identity key over q's pre-key
OwnerSigned(q, spSig) == spSig = signMessage(xs[q].spPair, xs[q].edPair)

\* signatures a bundle naming q may carry when it reaches p
BundleSigs(p, q) ==
  { signMessage(xs[q].spPair, xs[q].edPair),
    signMessage(xs[q].spPair, EdPair("E")),
    signMessage(xs[q].spPair, xs[p].edPair),
    signMessage(xs[q].dhPair, xs[q].edPair) }

\* the PeerBundles p's caller may build for the peer q
PeerBundles(p, q) ==
  { [edPub |-> xs[q].edPair, dhPub |-> xs[q].dhPair, spPub |-> xs[q].spPair,
     spSig |-> sig, otpPub |-> otp, ephKeypair |-> eph] :
      sig \in BundleSigs(p, q),
      otp \in {NONE} \cup {xs[q].otpPairs[i] : i \in 1..NumOTP},
      eph \in {NONE, EphPair(nextEph)} }

\* the RemoteBundle p's caller sends after deriveSession(bundle) returned
RemoteBundleOf(p, bundle) ==
  [edPub |-> xs[p].edPair, dhPub |-> xs[p].dhPair, spPub |-> xs[p].spPair,
   spSig |-> signMessage(xs[p].spPair, xs[p].edPair),
   otpPub |-> bundle.otpPub, ephPub |-> bundle.ephKeypair]

\* p's caller runs deriveSession(bundle) and, when it knows the ephemeral
\* key that was used, sends the initial message
DeriveSession(p, bundle) ==
  LET r == deriveSession(xs[p], bundle, EphPair(nextEph))
      q == Peer(p)
  IN  /\ xs' = [xs EXCEPT ![p] = r.x]
      /\ nextEph' = IF r.status = "ok" THEN nextEph + 1 ELSE nextEph
      /\ hs' = IF r.status = "ok" /\ bundle.ephKeypair # NONE
               THEN Append(hs, [from |-> p, to |-> q,
                                remote |-> RemoteBundleOf(p, bundle),
                                sk |-> getSessionKey(r.x).key])
               ELSE hs
      /\ xlast' = [op |-> "deriveSession", who |-> p, status |-> r.status,
                   ownerSigned |-> OwnerSigned(q, bundle.spSig),
                   keyBefore |-> xs[p].sessionKey, hsIdx |-> 0]
      /\ xops' = xops + 1
      /\ UNCHANGED <<otpUses, ratchetVars, compVars, libVars, uiVars, sigVars, xorVars, scVars>>

\* q's caller runs deriveSessionFromRemote on the RemoteBundle it was handed
FromRemote(q, remote, i) ==
  LET r == deriveSessionFromRemote(xs[q], remote)
  IN  /\ xs' = [xs EXCEPT ![q] = r.x]
      /\ otpUses' = IF r.otp # NONE
                    THEN [otpUses EXCEPT ![q] = Append(@, r.otp)] ELSE otpUses
      /\ xlast' = [op |-> "deriveSessionFromRemote", who |-> q,
                   status |-> r.status,
                   ownerSigned |-> OwnerSigned(Peer(q), remote.spSig),
                   keyBefore |-> xs[q].sessionKey, hsIdx |-> i]
      /\ xops' = xops + 1
      /\ UNCHANGED <<hs, nextEph, ratchetVars, compVars, libVars, uiVars, sigVars, xorVars, scVars>>

\* an initial message addressed to q arrives as it was sent
Receive(q) ==
  \E i \in 1..Len(hs) : hs[i].to = q /\ FromRemote(q, hs[i].remote, i)

\* an initial message addressed to q arrives with another signature in it
ReceiveForged(q) ==
  \E i \in 1..Len(hs) :
    /\ hs[i].to = q
    /\ FromRemote(q, [hs[i].remote EXCEPT
                        !.spSig = signMessage(xs[Peer(q)].spPair, EdPair("E"))], 0)

NextX3DH ==
  \/ \E p \in Party : \E b \in PeerBundles(p, Peer(p)) :
       xops < MaxXOps /\ DeriveSession(p, b)
  \/ \E q \in Party : xops < MaxXOps /\ Receive(q)
  \/ \E q \in Party : xops < MaxXOps /\ ReceiveForged(q)

SpecX3DH == Init /\ [][NextX3DH]_vars

(***************************************************************************)
(* The X3DHEncryptor components of the two parties.                        *)
(***************************************************************************)
\* the mount effect of p's component gets one state update further
InitKeys_Step(p) ==
  /\ comp[p].boot < 5
  /\ comp' = [comp EXCEPT ![p] = initKeysStep(comp[p], p)]
  /\ UNCHANGED <<clast, cops, ratchetVars, x3dhVars, libVars, uiVars, sigVars, xorVars, scVars>>

\* was this signature made with q's ECDSA identity key over q's pre-key
CompOwnerSigned(q, bundle) ==
  /\ bundle.spSig.msg = bundle.spRaw
  /\ bundle.spSig.by = <<q, "sig", 0>>

\* the PeerBundles that can reach p's component for the peer q, once q has
\* its identity and signed pre-key
CompBundles(p, q) ==
  IF comp[q].idECDH = NULL \/ comp[q].spECDH = NULL THEN {}
  ELSE LET spRaw == exportRaw(comp[q].spECDH.publicKey)
           prekeys == comp[q].oneTimePrekeys
       IN  { [idRaw |-> exportRaw(comp[q].idECDH.publicKey), spRaw |-> spRaw,
              spSig |-> sig, otpRaw |-> otp] :
               sig \in ({comp[q].spSig} \ {NULL})
                         \cup {[msg |-> spRaw, by |-> <<"E", "sig", 0>>],
                               [msg |-> spRaw, by |-> <<p, "sig", 0>>]},
               otp \in {NONE} \cup
                       {exportRaw(prekeys[i].publicKey) : i \in 1..Len(prekeys)} }

\* deriveSession(bundle) runs on p's component
CompDeriveSession(p, bundle) ==
  LET r == X3DHEncryptor_deriveSession(comp[p], bundle,
                                       <<p, "eph", comp[p].objs>>)
  IN  /\ comp' = [comp EXCEPT ![p] = r.c]
      /\ clast' = [op |-> "deriveSession", who |-> p, status |-> r.status,
                   ownerSigned |-> CompOwnerSigned(Peer(p), bundle),
                   keyBefore |-> comp[p].sessionKey, otpRaw |-> bundle.otpRaw]
      /\ cops' = cops + 1
      /\ UNCHANGED <<ratchetVars, x3dhVars, libVars, uiVars, sigVars, xorVars, scVars>>

NextComp ==
  \/ \E p \in Party : InitKeys_Step(p)
  \/ \E p \in Party : \E b \in CompBundles(p, Peer(p)) :
       cops < MaxCompDerives /\ CompDeriveSession(p, b)

SpecComp == Init /\ [][NextComp]_vars

(***************************************************************************)
(* Two objects of the tweetnacl DoubleRatchet class, both constructed from *)
(* the same shared secret and the same ratchet public key.                 *)
(***************************************************************************)
\* the plaintexts handed to encrypt: the empty one too
LibPlaintexts == {EmptyBytes} \cup Plaintexts

\* party p calls encrypt(plaintext)
LibEncrypt(p, plaintext) ==
  /\ Len(lsent[p]) < MaxSent
  /\ LET r == libEncrypt(lib[p], plaintext)
     IN  /\ lib' = [lib EXCEPT ![p] = r.s]
         /\ lsent' = [lsent EXCEPT ![p] = Append(@, r.payload)]
         /\ lkeys' = [lkeys EXCEPT ![p] = @ \cup {r.mk}]
         /\ llast' = [NoLibCall EXCEPT !.op = "encrypt", !.who = p,
                                      !.status = "ok", !.sentPt = plaintext,
                                      !.pre = lib[p]]
  /\ lops' = lops + 1
  /\ UNCHANGED <<lnext, lrcvd, lopened, ratchetVars, x3dhVars, compVars, uiVars, sigVars, xorVars, scVars>>

\* party p calls decrypt(payload)
LibDecrypt(p, payload, idx) ==
  /\ LET r == libDecrypt(lib[p], payload, lnext)
     IN  /\ lib' = [lib EXCEPT ![p] = r.s]
         /\ lnext' = IF r.s.dhs # lib[p].dhs THEN lnext + 1 ELSE lnext
         /\ llast' = [op |-> "decrypt", who |-> p, status |-> r.status,
                      pt |-> r.pt, idx |-> idx, sentPt |-> payload.box.pt,
                      pre |-> lib[p]]
  /\ lrcvd' = [lrcvd EXCEPT ![p] = Append(@, idx)]
  /\ lopened' = IF libDecrypt(lib[p], payload, lnext).status = "ok"
                THEN [lopened EXCEPT ![p] = Append(@, payload)] ELSE lopened
  /\ lops' = lops + 1
  /\ UNCHANGED <<lsent, lkeys, ratchetVars, x3dhVars, compVars, uiVars, sigVars, xorVars, scVars>>

\* a payload of the peer arrives as it was sent (in order, late, or again)
LibDeliver(p) ==
  \E i \in 1..Len(lsent[Peer(p)]) : LibDecrypt(p, lsent[Peer(p)][i], i)

\* a payload of the peer arrives with its secretbox bytes altered
LibDeliverCorrupted(p) ==
  \E i \in 1..Len(lsent[Peer(p)]) :
    LibDecrypt(p, [lsent[Peer(p)][i] EXCEPT !.box.intact = FALSE], 0)

\* the application calls the public method dhRatchet with the key the peer
\* currently sends under
LibDhRatchet(p) ==
  /\ lib' = [lib EXCEPT ![p] = dhRatchet(lib[p], lib[Peer(p)].dhs, lnext)]
  /\ lnext' = lnext + 1
  /\ llast' = [NoLibCall EXCEPT !.op = "dhRatchet", !.who = p,
                               !.status = "ok", !.pre = lib[p]]
  /\ lops' = lops + 1
  /\ UNCHANGED <<lsent, lrcvd, lopened, lkeys, ratchetVars, x3dhVars, compVars, uiVars, sigVars, xorVars, scVars>>

NextLib ==
  \/ \E p \in Party : \E pt \in LibPlaintexts : lops < MaxLibOps /\ LibEncrypt(p, pt)
  \/ \E p \in Party : lops < MaxLibOps /\ LibDeliver(p)
  \/ \E p \in Party : lops < MaxLibOps /\ LibDeliverCorrupted(p)
  \/ \E p \in Party : lops < MaxLibOps /\ LibDhRatchet(p)

SpecLib == Init /\ [][NextLib]_vars

(***************************************************************************)
(* A run uses one of the two DoubleRatchet classes: the application        *)
(* imports one of them.                                                    *)
(***************************************************************************)
NextEither ==
  \/ \E p \in Party : \E k \in InitKeys(p) :
       lops = 0 /\ ops < MaxOps /\ InitAlice(p, k)
  \/ \E p \in Party : \E pt \in Plaintexts :
       lops = 0 /\ ops < MaxOps /\ Encrypt(p, pt)
  \/ \E p \in Party : lops = 0 /\ ops < MaxOps /\ Deliver(p)
  \/ \E p \in Party : lops = 0 /\ ops < MaxOps /\ DeliverCorrupted(p)
  \/ \E p \in Party : \E pt \in LibPlaintexts :
       ops = 0 /\ lops < MaxLibOps /\ LibEncrypt(p, pt)
  \/ \E p \in Party : ops = 0 /\ lops < MaxLibOps /\ LibDeliver(p)
  \/ \E p \in Party : ops = 0 /\ lops < MaxLibOps /\ LibDeliverCorrupted(p)
  \/ \E p \in Party : ops = 0 /\ lops < MaxLibOps /\ LibDhRatchet(p)

SpecEither == Init /\ [][NextEither]_vars

(***************************************************************************)
(* The SecureMessage component: it was given an initialised ratchet; its   *)
(* handlers start ratchet calls, and every `await` inside a call is a      *)
(* point where the call is suspended and other handlers may run.           *)
(***************************************************************************)
\* a call that has returned or thrown
Settled(task) == task.pc \in {"done", "failed"}
InProgress == {i \in 1..Len(tasks) : ~Settled(tasks[i])}

NoMsg == [header |-> NoHeader, ciphertext |-> Junk]
NewTask(kind) ==
  [kind |-> kind, pc |-> "failed", pt |-> 0, ck |-> NULL, mk |-> NULL,
   msg |-> NoMsg]

\* ratchet.encrypt(plaintext) up to its first await: the chain key is read
\* and handed to KDF_CK
StartEncrypt(plaintext) ==
  /\ Len(tasks) < MaxTasks
  /\ tasks' = Append(tasks,
                IF smr.cks = NULL THEN NewTask("encrypt")
                ELSE [NewTask("encrypt") EXCEPT !.pc = "KDF_CK",
                                                !.pt = plaintext,
                                                !.ck = smr.cks])
  /\ UNCHANGED <<smr, out, ratchetVars, x3dhVars, compVars, libVars, sigVars, xorVars, scVars>>

\* the user clicks "Send Text"
SendText(plaintext) == StartEncrypt(plaintext)

\* the user picks a file whose bytes have been read
SendFile(plaintext) == StartEncrypt(plaintext)

\* an encrypt call continues after the await it was suspended at
ResumeEncrypt(i) ==
  /\ i \in InProgress
  /\ tasks[i].kind = "encrypt"
  /\ LET task == tasks[i]
     IN  CASE task.pc = "KDF_CK" ->
                LET ckRes == KDF_CK(task.ck)
                IN  /\ smr' = [smr EXCEPT !.cks = ckRes.chainKey]
                    /\ tasks' = [tasks EXCEPT ![i].pc = "HEADER",
                                   ![i].mk = ckRes.messageKey,
                                   ![i].msg.header = HEADER(smr.dhs, smr.PN, smr.Ns)]
                    /\ out' = out
           [] task.pc = "HEADER" ->
                /\ smr' = [smr EXCEPT !.Ns = @ + 1]
                /\ tasks' = [tasks EXCEPT ![i].pc = "AEAD"]
                /\ out' = out
           [] OTHER ->
                LET msg == [header |-> task.msg.header,
                            ciphertext |->
                              encryptAEAD(task.mk, task.pt,
                                          CONCAT(<<>>, task.msg.header))]
                IN  /\ tasks' = [tasks EXCEPT ![i].pc = "done", ![i].msg = msg]
                    /\ out' = Append(out, msg)
                    /\ smr' = smr
  /\ UNCHANGED <<ratchetVars, x3dhVars, compVars, libVars, sigVars, xorVars, scVars>>

\* the messages that may arrive as the incomingMessage prop: the peer's
\* first message, or one this component sent
IncomingMessages ==
  {[header |-> HEADER(BobPub, 0, 0), ciphertext |-> Junk]}
    \cup {out[i] : i \in 1..Len(out)}

\* the incomingMessage effect: ratchet.decryptText(msg) up to its first
\* await (the import of the header's public key)
Incoming(msg) ==
  /\ Len(tasks) < MaxTasks
  /\ tasks' = Append(tasks, [NewTask("decrypt") EXCEPT !.pc = "importKey",
                                                       !.msg = msg])
  /\ UNCHANGED <<smr, out, ratchetVars, x3dhVars, compVars, libVars, sigVars, xorVars, scVars>>

\* a decrypt call continues after the import and runs to its end
ResumeDecrypt(i) ==
  /\ i \in InProgress
  /\ tasks[i].kind = "decrypt"
  /\ LET r == decrypt(smr, tasks[i].msg.header, tasks[i].msg.ciphertext,
                      <<>>, FirstFresh + i)
     IN  /\ smr' = r.s
         /\ tasks' = [tasks EXCEPT ![i].pc = IF r.status = "ok" THEN "done"
                                             ELSE "failed",
                                   ![i].pt = r.pt]
  /\ UNCHANGED <<out, ratchetVars, x3dhVars, compVars, libVars, sigVars, xorVars, scVars>>

NextUI ==
  \/ \E pt \in Plaintexts : SendText(pt)
  \/ \E pt \in Plaintexts : SendFile(pt)
  \/ \E i \in 1..Len(tasks) : ResumeEncrypt(i)
  \/ \E m \in IncomingMessages : Incoming(m)
  \/ \E i \in 1..Len(tasks) : ResumeDecrypt(i)

SpecUI == Init /\ [][NextUI]_vars

(***************************************************************************)
(* The signature hook (useSignatureVRF) as its callers drive it: key pairs *)
(* are generated, messages signed, and signatures verified against any     *)
(* message and key.                                                        *)
(***************************************************************************)
Seeds == 1..MaxSeed

\* a caller runs generateIdentityKeypair()
GenerateIdentityKeypair(seed) ==
  /\ Len(ids) < MaxIds
  /\ ids' = Append(ids, generateIdentityKeypair(seed))
  /\ UNCHANGED <<signed, vlast, ratchetVars, x3dhVars, compVars, libVars, uiVars, xorVars, scVars>>

\* a caller runs signMessage(msg, ids[i].secretKey)
SignMessage(i, msg) ==
  /\ signed' = signed \cup
       {[msg |-> msg, by |-> i,
         signature |-> signMessage(msg, ids[i].secretKey)]}
  /\ UNCHANGED <<ids, vlast, ratchetVars, x3dhVars, compVars, libVars, uiVars, xorVars, scVars>>

\* the signature strings in circulation: those made, and altered ones
Signatures ==
  {r.signature : r \in signed} \cup {Altered(r.signature) : r \in signed}

\* the public keys in circulation: the generated ones and a stranger's
PublicKeys == {ids[i].publicKey : i \in 1..Len(ids)} \cup {EdPair("E")}

\* a caller runs verifyMessage(msg, signature, publicKey)
VerifyMessage(msg, signature, publicKey) ==
  /\ vlast' = [op |-> "verify", msg |-> msg, sig |-> signature,
               pk |-> publicKey,
               result |-> verifyMessage(msg, signature, publicKey)]
  /\ UNCHANGED <<ids, signed, ratchetVars, x3dhVars, compVars, libVars, uiVars, xorVars, scVars>>

NextSig ==
  \/ \E seed \in Seeds : GenerateIdentityKeypair(seed)
  \/ \E i \in 1..Len(ids) : \E msg \in Plaintexts : SignMessage(i, msg)
  \/ \E msg \in Plaintexts : \E sg \in Signatures : \E pk \in PublicKeys :
       VerifyMessage(msg, sg, pk)

SpecSig == Init /\ [][NextSig]_vars

(***************************************************************************)
(* Messages whose header, or whose associated data, is not what the sender *)
(* used.  A delivery records the position of the message as a negative     *)
(* number when something other than the ciphertext bytes was changed.      *)
(***************************************************************************)
\* the associated data a caller may pass instead of the default
OtherAD == <<"ad">>

\* headers that differ from `header` in one field
Reheaded(header) ==
  { [header EXCEPT !.dh = EvePub],
    [header EXCEPT !.pn = @ + 1],
    [header EXCEPT !.n = @ + 1] }

\* a message of the peer arrives with one header field changed
DeliverReheaded(p) ==
  \E i \in 1..Len(sent[Peer(p)]) :
    \E h \in Reheaded(sent[Peer(p)][i].header) :
      Decrypt(p, h, sent[Peer(p)][i].ciphertext, 0 - i)

\* party p calls decrypt(header, ciphertext, associatedData) on a message
\* of the peer with associated data the sender did not use
DeliverOtherAD(p) ==
  \E i \in 1..Len(sent[Peer(p)]) :
    LET m == sent[Peer(p)][i]
        r == decrypt(sess[p], m.header, m.ciphertext, OtherAD, nextKey)
        stepped == r.s.dhs # sess[p].dhs
    IN  /\ sess' = [sess EXCEPT ![p] = r.s]
        /\ nextKey' = IF stepped THEN nextKey + 1 ELSE nextKey
        /\ ratcheted' = IF stepped /\ leaked # NoLeak
                        THEN [ratcheted EXCEPT ![p] = TRUE] ELSE ratcheted
        /\ last' = [op |-> "decrypt", who |-> p, status |-> r.status,
                    pt |-> r.pt, idx |-> 0 - i, header |-> m.header,
                    sentPt |-> m.ciphertext.pt, pre |-> sess[p]]
        /\ rcvd' = [rcvd EXCEPT ![p] = Append(@, 0 - i)]
        /\ opened' = IF r.status = "ok"
                     THEN [opened EXCEPT ![p] =
                             Append(@, [header |-> m.header,
                                        ciphertext |-> m.ciphertext])]
                     ELSE opened
        /\ ops' = ops + 1
        /\ UNCHANGED <<sent, inits, sentKeys, leaked, lateKeys, x3dhVars,
                       compVars, libVars, uiVars, sigVars, xorVars, scVars>>

\* payloads that differ from `payload` in one of the bytes before the nonce
LibReheaded(payload) ==
  { [payload EXCEPT !.dh = EvePub],
    [payload EXCEPT !.ns = Byte(@ + 1)],
    [payload EXCEPT !.pn = Byte(@ + 1)] }

\* a payload of the peer arrives with one of those bytes changed
LibDeliverReheaded(p) ==
  \E i \in 1..Len(lsent[Peer(p)]) :
    \E pl \in LibReheaded(lsent[Peer(p)][i]) : LibDecrypt(p, pl, 0 - i)

NextBind ==
  \/ \E p \in Party : \E k \in InitKeys(p) :
       lops = 0 /\ ops < MaxBindOps /\ InitAlice(p, k)
  \/ \E p \in Party : \E pt \in Plaintexts :
       lops = 0 /\ ops < MaxBindOps /\ Encrypt(p, pt)
  \/ \E p \in Party : lops = 0 /\ ops < MaxBindOps /\ DeliverReheaded(p)
  \/ \E p \in Party : lops = 0 /\ ops < MaxBindOps /\ DeliverOtherAD(p)
  \/ \E p \in Party : \E pt \in LibPlaintexts :
       ops = 0 /\ lops < MaxBindOps /\ LibEncrypt(p, pt)
  \/ \E p \in Party : ops = 0 /\ lops < MaxBindOps /\ LibDeliverReheaded(p)

SpecBind == Init /\ [][NextBind]_vars

(***************************************************************************)
(* Long chains: runs in which a party has sent many messages, so that the  *)
(* counters written into a header need more than one byte.  The messages   *)
(* of such a stretch are not kept; the session is as the encrypt calls     *)
(* leave it.                                                               *)
(***************************************************************************)
\* how many encrypt calls a stretch may consist of
Stretches == {254, 255, 256, 65536}

\* the session after k successful encrypt calls
AfterSends(s, k) ==
  [s EXCEPT !.cks = <<"CK", s.cks[2], s.cks[3] + k>>, !.Ns = @ + k]

\* party p calls encrypt k times
SendMany(p, k) ==
  /\ sess[p].cks # NULL /\ sess[p].Ns = 0
  /\ sess' = [sess EXCEPT ![p] = AfterSends(sess[p], k)]
  /\ last' = [NoCall EXCEPT !.op = "encrypt many", !.who = p,
                            !.status = "ok", !.pre = sess[p]]
  /\ ops' = ops + 1
  /\ UNCHANGED <<nextKey, sent, rcvd, opened, inits, sentKeys, leaked, ratcheted,
                 lateKeys, x3dhVars, compVars, libVars, uiVars, sigVars, xorVars, scVars>>

\* the same for the tweetnacl class
LibAfterSends(s, k) ==
  [s EXCEPT !.cks = <<"CK", s.cks[2], s.cks[3] + k>>, !.Ns = @ + k]

LibSendMany(p, k) ==
  /\ lib[p].Ns = 0
  /\ lib' = [lib EXCEPT ![p] = LibAfterSends(lib[p], k)]
  /\ llast' = [NoLibCall EXCEPT !.op = "encrypt many", !.who = p,
                               !.status = "ok", !.pre = lib[p]]
  /\ lops' = lops + 1
  /\ UNCHANGED <<lnext, lsent, lrcvd, lopened, lkeys, ratchetVars, x3dhVars, compVars,
                 uiVars, sigVars, xorVars, scVars>>

NextWire ==
  \/ \E p \in Party : lops = 0 /\ ops < MaxWireOps /\ InitAlice(p, BobPub)
  \/ \E p \in Party : \E k \in Stretches :
       lops = 0 /\ ops < MaxWireOps /\ SendMany(p, k)
  \/ \E p \in Party : lops = 0 /\ ops < MaxWireOps /\ Encrypt(p, 1)
  \/ \E p \in Party : lops = 0 /\ ops < MaxWireOps /\ ProbeGap(p)
  \/ \E p \in Party : \E k \in Stretches :
       ops = 0 /\ lops < MaxWireOps /\ LibSendMany(p, k)
  \/ \E p \in Party : ops = 0 /\ lops < MaxWireOps /\ LibEncrypt(p, 1)
  \/ \E p \in Party : ops = 0 /\ lops < MaxWireOps /\ LibDhRatchet(p)

SpecWire == Init /\ [][NextWire]_vars

(***************************************************************************)
(* The XOR helpers as a caller uses them: a text or a buffer is encrypted  *)
(* under a key string, and what came out is decrypted under the same key   *)
(* or without a key.                                                       *)
(***************************************************************************)
\* code units of the texts: "a", e-acute, the byte order mark, a lone
\* high surrogate
CodeUnits == {97, 233, BOM, 55357}
\* bytes of the buffers
BufferBytes == {0, 97, 255}
\* key strings: none, "k", "k" and e-acute
Keys == {<<>>, <<107>>, <<107, 233>>}

SeqsUpTo(S, n) == UNION {[1..m -> S] : m \in 0..n}
Texts == SeqsUpTo(CodeUnits, MaxLen)
Buffers == SeqsUpTo(BufferBytes, MaxLen)

EncryptTextCall(plaintext, key) ==
  LET r == encryptText(plaintext, key)
  IN  /\ elast' = [op |-> "encryptText", plain |-> plaintext, key |-> key,
                   status |-> r.status, out |-> r.out]
      /\ UNCHANGED <<ratchetVars, x3dhVars, compVars, libVars, uiVars, sigVars, scVars>>

\* the ciphertext the last encryptText returned is handed to decryptText
DecryptTextCall(key) ==
  /\ elast.op = "encryptText" /\ elast.status = "ok"
  /\ key \in {elast.key, <<>>}
  /\ LET r == decryptText(elast.out, key)
     IN  elast' = [op |-> "decryptText", plain |-> elast.plain, key |-> key,
                   status |-> r.status, out |-> r.out]
  /\ UNCHANGED <<ratchetVars, x3dhVars, compVars, libVars, uiVars, sigVars, scVars>>

EncryptBufferCall(buffer, key) ==
  LET r == encryptArrayBuffer(buffer, key)
  IN  /\ elast' = [op |-> "encryptArrayBuffer", plain |-> buffer, key |-> key,
                   status |-> r.status, out |-> r.out]
      /\ UNCHANGED <<ratchetVars, x3dhVars, compVars, libVars, uiVars, sigVars, scVars>>

\* the buffer the last encryptArrayBuffer returned is handed to
\* decryptArrayBuffer
DecryptBufferCall(key) ==
  /\ elast.op = "encryptArrayBuffer" /\ elast.status = "ok"
  /\ key \in {elast.key, <<>>}
  /\ LET r == decryptArrayBuffer(elast.out, key)
     IN  elast' = [op |-> "decryptArrayBuffer", plain |-> elast.plain,
                   key |-> key, status |-> r.status, out |-> r.out]
  /\ UNCHANGED <<ratchetVars, x3dhVars, compVars, libVars, uiVars, sigVars, scVars>>

NextXor ==
  \/ \E p \in Texts : \E k \in Keys : EncryptTextCall(p, k)
  \/ \E k \in Keys : DecryptTextCall(k)
  \/ \E b \in Buffers : \E k \in Keys : EncryptBufferCall(b, k)
  \/ \E k \in Keys : DecryptBufferCall(k)

SpecXor == Init /\ [][NextXor]_vars

(***************************************************************************)
(* Properties of the ratchet session.                                      *)
(***************************************************************************)
\* each party's decrypt calls were handed the peer's messages 1, 2, 3, ...
AllInOrder == \A p \in Party : \A i \in 1..Len(rcvd[p]) : rcvd[p][i] = i

\* each of the two objects was set up by exactly one initAlice call
SetUpOnce == \A p \in Party : inits[p] = 1

\* the last call was a decrypt of a message its peer sent, unaltered
GenuineDecrypt == last.op = "decrypt" /\ last.idx > 0

\* that decrypt returned the plaintext the peer encrypted
Recovered == last.status = "ok" /\ last.pt = last.sentPt

\* the same for the tweetnacl class
LibAllInOrder == \A p \in Party : \A i \in 1..Len(lrcvd[p]) : lrcvd[p][i] = i
LibGenuineDecrypt == llast.op = "decrypt" /\ llast.idx > 0
LibRecovered == llast.status = "ok" /\ llast.pt = llast.sentPt

\* C1: ratchet round-trip -- two sessions set up from the same shared
\* secret, messages of each direction delivered in the order sent: every
\* decrypt returns the plaintext that was encrypted; for either
\* DoubleRatchet class.
C1_RoundTrip ==
  /\ (GenuineDecrypt /\ SetUpOnce /\ AllInOrder) => Recovered
  /\ (LibGenuineDecrypt /\ LibAllInOrder) => LibRecovered

\* C2: out-of-order tolerance -- the sender encrypts its messages in one
\* sending chain and the receiver decrypts them, each once, in any order:
\* every decrypt succeeds and returns the plaintext of its message.
OneChain(q) ==
  \A i, j \in 1..Len(sent[q]) : sent[q][i].header.dh = sent[q][j].header.dh
EachOnce(p) ==
  \A i, j \in 1..Len(rcvd[p]) :
    rcvd[p][i] > 0 /\ (i # j => rcvd[p][i] # rcvd[p][j])
C2_OutOfOrder ==
  (GenuineDecrypt /\ SetUpOnce /\ OneChain(Peer(last.who)) /\ EachOnce(last.who))
    => Recovered

\* C3: a decrypt that fails authentication leaves every field of the
\* session (RK, DHs, DHr, CKs, CKr, Ns, Nr, PN, skipped keys) as it was
\* before the call; for either DoubleRatchet class.
C3_FailedRecvUnchanged ==
  /\ (last.op = "decrypt" /\ last.status = "AuthFail")
       => sess[last.who] = last.pre
  /\ (llast.op = "decrypt" /\ llast.status = "empty")
       => lib[llast.who] = llast.pre

\* C4: post-compromise recovery -- once both parties have completed a DH
\* ratchet step with a fresh key pair after one session's state leaked, the
\* message key of no message encrypted from then on can be computed from
\* the leaked state (headers carry public keys and counters only).
C4_PostCompromise ==
  SetUpOnce => \A mk \in lateKeys : ~CanDerive(leaked.know, mk)

LateOldChain ==
  /\ GenuineDecrypt
  /\ SetUpOnce
  /\ LET q == Peer(last.who)
     IN  /\ \E j \in (last.idx + 1)..Len(sent[q]) :
               /\ sent[q][j].header.dh # last.header.dh
               /\ sent[q][j].header.dh = last.pre.dhr
         /\ \A i \in 1..(Len(rcvd[last.who]) - 1) : rcvd[last.who][i] # last.idx
C9_AcrossChains ==
  LateOldChain =>
    /\ Recovered
    /\ sess[last.who].dhr = last.pre.dhr
    /\ sess[last.who].dhs = last.pre.dhs
    /\ sess[last.who].rk = last.pre.rk
    /\ sess[last.who].cks = last.pre.cks

\* C10 as stated: decrypt throws "Too many skipped messages" exactly when
\* the header's message number is more than MAX_SKIP ahead of the
\* receiver's Nr.
C10_AsStated ==
  last.op = "decrypt" =>
    (last.status = "TooManySkipped" <=> last.header.n > last.pre.Nr + MAX_SKIP)

\* C10 amended: decrypt throws "Too many skipped messages" exactly when
\*  - the header carries the peer key the session already holds, a
\*    receiving chain exists and the message number exceeds Nr + MAX_SKIP;
\*  - or the header carries a new peer key and either a receiving chain
\*    exists and the header's previous-chain length exceeds Nr + MAX_SKIP,
\*    or the session has a key pair of its own and the message number
\*    exceeds MAX_SKIP (the ratchet step has reset Nr to 0).
\* A gap of exactly MAX_SKIP is accepted.
NewPeerKey(s, h) == s.dhr = NULLKEY \/ h.dh # s.dhr
SkipLimitExceeded(s, h) ==
  IF NewPeerKey(s, h)
  THEN \/ s.ckr # NULL /\ h.pn > s.Nr + MAX_SKIP
       \/ s.dhs # NULLKEY /\ h.n > MAX_SKIP
  ELSE s.ckr # NULL /\ h.n > s.Nr + MAX_SKIP
C10_SkipLimit ==
  last.op = "decrypt" =>
    (last.status = "TooManySkipped" <=> SkipLimitExceeded(last.pre, last.header))

\* the limit hit by one: the peer key is the current one, Nr has advanced,
\* and the message number is Nr + MAX_SKIP + 1
C10_Witness ==
  /\ last.op = "decrypt" /\ last.status = "TooManySkipped"
  /\ ~NewPeerKey(last.pre, last.header)
  /\ last.pre.Nr > 0
  /\ last.header.n = last.pre.Nr + MAX_SKIP + 1

(***************************************************************************)
(* Properties of the X3DH handshake.                                       *)
(***************************************************************************)
\* the last call was the responder's derivation for an initial message that
\* arrived as the initiator sent it
HandshakeCompleted ==
  xlast.op = "deriveSessionFromRemote" /\ xlast.hsIdx > 0 /\ xlast.status = "ok"

\* C6: X3DH agreement -- the initiator ran deriveSession on the responder's
\* honestly built bundle, the responder ran deriveSessionFromRemote on the
\* initiator's initial message: getSessionKey returns on the responder's
\* side the key it returned on the initiator's, without a one-time pre-key
\* and with any one of the responder's one-time pre-keys.
C6_Agreement ==
  HandshakeCompleted =>
    /\ getSessionKey(xs[xlast.who]).status = "ok"
    /\ getSessionKey(xs[xlast.who]).key = hs[xlast.hsIdx].sk

\* C7: pre-key signature check -- a session derivation (X3DHSession or
\* X3DHEncryptor component) that gets to verifying it rejects the bundle with
\* the invalid-signature error exactly when its signature was not made with
\* the bundle owner's identity key over the owner's signed pre-key, and a
\* rejection leaves the stored session key as it was (absent if none was
\* derived before).
XDerivation == xlast.op \in {"deriveSession", "deriveSessionFromRemote"}
CDerivation == clast.op = "deriveSession" /\ clast.status # "KeysNotInitialized"
C7_PrekeySignature ==
  /\ XDerivation =>
       /\ (xlast.status = "InvalidSPKSignature") <=> ~xlast.ownerSigned
       /\ xlast.status = "InvalidSPKSignature" =>
            /\ xs[xlast.who].sessionKey = xlast.keyBefore
            /\ xlast.keyBefore = NULL =>
                 getSessionKey(xs[xlast.who]).status = "SessionNotDerived"
  /\ CDerivation =>
       /\ (clast.status = "InvalidPrekeySignature") <=> ~clast.ownerSigned
       /\ clast.status = "InvalidPrekeySignature" =>
            comp[clast.who].sessionKey = clast.keyBefore

\* C8: one-time pre-keys are single-use -- over the handshakes one
\* responder handled, no one-time pre-key took part in two derivations, and
\* a one-time pre-key a derivation used is no longer in the responder's
\* store.
InStore(q, otp) == \E i \in 1..Len(xs[q].otpPairs) : xs[q].otpPairs[i] = otp
C8_SingleUse ==
  \A q \in Party :
    /\ \A i, j \in 1..Len(otpUses[q]) : i # j => otpUses[q][i] # otpUses[q][j]
    /\ \A i \in 1..Len(otpUses[q]) : ~InStore(q, otpUses[q][i])

(***************************************************************************)
(* Properties of the sessions: keys, stores, counters, reporting.          *)
(***************************************************************************)
\* the encryptions of a run: who made them and which one it was
Encryptions == {<<p, i>> : p \in Party, i \in 1..MaxSent}
Made(e) == e[2] <= Len(sent[e[1]])
LibMade(e) == e[2] <= Len(lsent[e[1]])

\* C11: message keys are one-time -- over the encrypt and decrypt calls of
\* the two endpoints of a session (each set up once), no two encryptions,
\* by the same party or by different parties, use the same message key;
\* for either DoubleRatchet class.
C11_OneTimeKeys ==
  /\ SetUpOnce =>
       \A e, f \in Encryptions :
         (Made(e) /\ Made(f) /\ e # f) =>
           sent[e[1]][e[2]].ciphertext.mk # sent[f[1]][f[2]].ciphertext.mk
  /\ \A e, f \in Encryptions :
       (LibMade(e) /\ LibMade(f) /\ e # f) =>
         lsent[e[1]][e[2]].box.mk # lsent[f[1]][f[2]].box.mk

\* the receiving chains (named by the root they were derived from) that
\* have message keys in a session's skipped-key store, and how many each
StoredChains(s) == {s.skipped[k][2] : k \in DOMAIN s.skipped}
StoredOf(s, chain) ==
  Cardinality({k \in DOMAIN s.skipped : s.skipped[k][2] = chain})

\* C12: the skipped-key store is bounded -- over any sequence of decrypt
\* calls a session holds at most MAX_SKIP skipped message keys of any one
\* receiving chain, and skipped keys of at most 5 earlier receiving chains
\* (peer DH keys) besides the current one.
C12_StoreBounded ==
  \A p \in Party :
    /\ \A chain \in StoredChains(sess[p]) :
         StoredOf(sess[p], chain) <= MAX_SKIP
    /\ Cardinality(StoredChains(sess[p]) \ {IF sess[p].ckr = NULL THEN NULL
                                            ELSE sess[p].ckr[2]}) <= 5

\* how many of the first i messages p sent carry the ratchet key k
SentUnder(p, k, i) ==
  Cardinality({j \in 1..i : sent[p][j].header.dh = k})
LibSentUnder(p, k, i) ==
  Cardinality({j \in 1..i : lsent[p][j].dh = k})

\* C13: send ordering -- the messages a session (set up once) encrypts in
\* one sending chain carry the message numbers 0, 1, 2, ... in the order
\* of the calls, and Ns is the number of messages sent in the current
\* sending chain; for either DoubleRatchet class.
C13_SendOrdering ==
  /\ \A p \in Party : inits[p] = 1 =>
       /\ \A i \in 1..Len(sent[p]) :
            sent[p][i].header.n = SentUnder(p, sent[p][i].header.dh, i - 1)
       /\ sess[p].Ns = SentUnder(p, sess[p].dhs, Len(sent[p]))
  /\ \A p \in Party :
       /\ \A i \in 1..Len(lsent[p]) :
            lsent[p][i].ns = LibSentUnder(p, lsent[p][i].dh, i - 1)
       /\ lib[p].Ns = LibSentUnder(p, lib[p].dhs, Len(lsent[p]))

\* C14: single caller -- the SecureMessage component never has two
\* encrypt / decrypt calls on its ratchet in progress at the same time.
C14_SingleCaller == Cardinality(InProgress) <= 1

\* the ways DoubleRatchetAlgo's decrypt throws (its promise rejects)
ThrownByDecrypt ==
  {"RecvChainNotInit", "TooManySkipped", "AuthFail", "TypeError"}

\* C15: every failure is reported -- a decrypt that fails is reported to
\* the caller as an error: its promise rejects, and what it hands back is
\* nothing that a successful decrypt of some plaintext hands back; for
\* either DoubleRatchet class.
C15_FailureReported ==
  /\ (last.op = "decrypt" /\ last.status # "ok")
       => last.status \in ThrownByDecrypt
  /\ (llast.op = "decrypt" /\ llast.status # "ok")
       => llast.pt \notin LibPlaintexts

\* C16: send precondition -- encrypt on a session that has no sending
\* chain key throws "Ratchet not initialized", changes no field of the
\* session (Ns included) and produces no message.
C16_SendPrecondition ==
  [][(ops' # ops /\ last'.op = "encrypt" /\ sess[last'.who].cks = NULL)
       => /\ last'.status = "NotInitialized"
          /\ sess' = sess
          /\ sent' = sent]_vars

\* encrypt was called on a session nobody initialised, and threw
C16_Witness ==
  /\ last.op = "encrypt" /\ last.status = "NotInitialized"
  /\ last.pre.cks = NULL
  /\ sess[last.who] = NewRatchet

\* The life-cycle state of a session, read off its two chain-key fields
LifeState(s) ==
  IF s.cks = NULL
  THEN IF s.ckr = NULL THEN "Uninitialized" ELSE "RecvOnly"
  ELSE IF s.ckr = NULL THEN "SendOnly" ELSE "Bidirectional"

LifeRank(state) ==
  CASE state = "Uninitialized" -> 0
    [] state = "SendOnly"      -> 1
    [] state = "RecvOnly"      -> 1
    [] state = "Bidirectional" -> 2
    [] OTHER                   -> 3

\* C17: session life cycle -- a session only moves forward through
\* Uninitialized, SendOnly or RecvOnly, Bidirectional (and Closed); no
\* operation takes it back to an earlier state, and it never changes sides
\* between SendOnly and RecvOnly.
C17_LifeCycle ==
  [][\A p \in Party :
       /\ LifeRank(LifeState(sess'[p])) >= LifeRank(LifeState(sess[p]))
       /\ (LifeRank(LifeState(sess'[p])) = LifeRank(LifeState(sess[p]))
             => LifeState(sess'[p]) = LifeState(sess[p]))]_vars

\* the last verifyMessage call was given a signature that signMessage made
\* for this message with the secret key of this public key
VerifiedAsSigned ==
  \E r \in signed : /\ vlast.sig = r.signature
                    /\ vlast.msg = r.msg
                    /\ vlast.pk = ids[r.by].publicKey

SteppedOnReceive ==
  /\ last.op = "decrypt" /\ last.idx > 0
  /\ last.header.dh # last.pre.dhr
  /\ last.status \in {"ok", "AuthFail"}

\* C19: DH ratchet step -- on a header with a new peer key the receiver sets
\* PN to Ns, resets Ns (and Nr), stores the peer key, takes the receiving
\* chain from its old pair and the sending chain from a fresh pair; after
\* the step its receiving chain is the chain the sender sent the message on.
\* For the tweetnacl class the step is the method dhRatchet.
C19_RatchetStep ==
  /\ (SetUpOnce /\ SteppedOnReceive) =>
       LET s == sess[last.who]
       IN  /\ s.PN = last.pre.Ns
           /\ s.Ns = 0
           /\ s.dhr = last.header.dh
           /\ s.dhs # last.pre.dhs
           /\ s.ckr # NULL
           /\ s.ckr[2] = sent[Peer(last.who)][last.idx].ciphertext.mk[2]
  /\ llast.op = "dhRatchet" =>
       LET s == lib[llast.who]
       IN  /\ s.PN = llast.pre.Ns
           /\ s.Ns = 0
           /\ s.dhs # llast.pre.dhs
           /\ s.ckr[2] = lib[Peer(llast.who)].cks[2]

\* party p's session is as its one initAlice call left it, up to messages
\* sent: root key and sending chain come from KDF_RK(SK, DH(dhs, dhr))
AsInitialised(p) == inits[p] = 1 /\ sess[p].ckr = NULL

\* C20: root-key derivation uses the DH output -- two derivations from the
\* same root key (the shared secret) with different DH outputs give
\* different root keys and different chains.
C20_RootKeyUsesDH ==
  \A p \in Party :
    LET q == Peer(p)
    IN  (/\ AsInitialised(p) /\ AsInitialised(q)
         /\ DH(sess[p].dhs, sess[p].dhr) # DH(sess[q].dhs, sess[q].dhr))
          => /\ sess[p].rk # sess[q].rk
             /\ sess[p].cks[2] # sess[q].cks[2]

(***************************************************************************)
(* Properties of start-up, the skipped-key store, and the wire format.     *)
(***************************************************************************)
\* the last call handed a responder -- an object on which initAlice never
\* ran -- the first message of its peer, as sent
FirstInbound ==
  /\ last.op = "decrypt" /\ last.idx > 0
  /\ last.pre = NewRatchet

\* the same for the tweetnacl class: the first decrypt of an object that has
\* sent nothing, handed a payload of the peer as sent
LibFirstInbound ==
  /\ llast.op = "decrypt" /\ llast.idx > 0
  /\ Len(lrcvd[llast.who]) = 1 /\ Len(lsent[llast.who]) = 0

\* C21: responder start-up -- the first inbound message of a responder
\* triggers the first DH ratchet step, which populates CKr and then CKs,
\* and that message decrypts.
C21_ResponderStartUp ==
  /\ FirstInbound =>
       /\ Recovered
       /\ sess[last.who].ckr # NULL
       /\ sess[last.who].cks # NULL
  /\ LibFirstInbound =>
       /\ LibRecovered
       /\ lib[llast.who].ckr # NULL

\* the last call handed the receiver a genuine message of its current
\* receiving chain whose number decryption had jumped over before: the
\* store held an entry for that number when the call began
LateArrival ==
  /\ last.op = "decrypt" /\ last.idx > 0
  /\ last.header.dh = last.pre.dhr
  /\ <<last.pre.PN, last.header.n>> \in DOMAIN last.pre.skipped

\* C22: skipped keys are used and drained -- a message whose key was put
\* into the store when decryption jumped ahead is decrypted with that key
\* when it arrives, and the entry is removed from the store on that use.
C22_SkippedDrained ==
  (SetUpOnce /\ LateArrival) =>
     /\ Recovered
     /\ <<last.pre.PN, last.header.n>> \notin DOMAIN sess[last.who].skipped

\* C23: ChainTooLong leaves the session unchanged -- when decrypt fails
\* because too many messages would be skipped, no field of the session has
\* changed, also when the header carries a new DH key and only the message
\* number in the new chain exceeds the limit.
C23_TooLongUnchanged ==
  (last.op = "decrypt" /\ last.status = "TooManySkipped")
     => sess[last.who] = last.pre

\* C24: header binding -- when a header field (DH public key, previous
\* chain length, message number) or the associated data is not what the
\* sender used, decryption fails.
C24_HeaderBinding ==
  /\ (last.op = "decrypt" /\ last.idx < 0) => last.status # "ok"
  /\ (llast.op = "decrypt" /\ llast.idx < 0) => llast.status # "ok"

\* C25: skipped-key indexing -- skipped message keys are indexed by (peer DH
\* key of the chain, message number), so keys skipped in two receiving
\* chains never share a store entry: a decrypt never replaces the key an
\* entry of the store holds by another key.
C25_SkippedIndexing ==
  last.op = "decrypt" =>
    \A k \in (DOMAIN last.pre.skipped) \cap (DOMAIN sess[last.who].skipped) :
       sess[last.who].skipped[k] = last.pre.skipped[k]

\* C26: initiator start-up -- right after initAlice(SK, peer key) DHr is the
\* given peer key, CKs is present, CKr is absent, Ns = Nr = PN = 0 and the
\* skipped-key store is empty, also when the session was in use before.  An
\* object of the tweetnacl class is in that state when constructed.
C26_InitiatorStartUp ==
  /\ last.op = "initAlice" =>
       LET s == sess[last.who]
       IN  /\ s.dhr \in InitKeys(last.who)
           /\ s.cks = KDF_RK(SharedSecret, DH(s.dhs, s.dhr)).chainKey
           /\ s.ckr = NULL
           /\ s.Ns = 0 /\ s.Nr = 0 /\ s.PN = 0
           /\ DOMAIN s.skipped = {}
  /\ lops = 0 =>
       \A p \in Party :
          /\ lib[p].dhr = BobPub
          /\ lib[p].cks # NULL /\ lib[p].ckr = NULL
          /\ lib[p].Ns = 0 /\ lib[p].Nr = 0 /\ lib[p].PN = 0

\* initAlice ran on a session in use: it had a receiving chain and held
\* skipped keys
C26_Witness ==
  /\ last.op = "initAlice"
  /\ last.pre.ckr # NULL
  /\ DOMAIN last.pre.skipped # {}
  /\ sess[last.who].ckr = NULL

(***************************************************************************)
(* Properties of the X3DH key material and of the responder's pre-keys.    *)
(***************************************************************************)
\* the 32 bytes 0xFF that are to precede the DH outputs
FFBlock == {<<"-", "ff", 0>>}

\* the key material of a handshake as it is to be: the 0xFF block, then
\* DH1, DH2, DH3 of the initiator, then DH4 if a one-time pre-key was named
KeyMaterial(h) ==
  LET dh1  == DH(xs[h.from].dhPair, xs[h.to].spPair)
      dh2  == DH(h.remote.ephPub, xs[h.to].dhPair)
      dh3  == DH(h.remote.ephPub, xs[h.to].spPair)
  IN  IF h.remote.otpPub = NONE
      THEN <<FFBlock, dh1, dh2, dh3>>
      ELSE <<FFBlock, dh1, dh2, dh3, DH(h.remote.ephPub, h.remote.otpPub)>>

\* C27: X3DH key material -- the session key of a handshake is the HKDF of
\* the 0xFF block followed by DH1, DH2, DH3, with DH4 appended only when a
\* one-time pre-key was used; without one there is no fourth block.
C27_KeyMaterial ==
  \A i \in 1..Len(hs) : hs[i].sk = X3DH_HKDF(KeyMaterial(hs[i]))

\* the last call was the responder's derivation for an initial message, as
\* sent, that names a one-time pre-key
NamedOTP ==
  /\ xlast.op = "deriveSessionFromRemote" /\ xlast.hsIdx > 0
  /\ hs[xlast.hsIdx].remote.otpPub # NONE

\* C28: responder one-time pre-key selection -- the responder derives the
\* session with the one-time pre-key the initiator named, and rejects an
\* initial message that names one it does not hold.
C28_ResponderOTP ==
  NamedOTP =>
    LET q   == xlast.who
        otp == hs[xlast.hsIdx].remote.otpPub
    IN  IF \E i \in 1..NumOTP : OtpPair(q, i) = otp
        THEN /\ xlast.status = "ok"
             /\ Len(otpUses[q]) > 0
             /\ otpUses[q][Len(otpUses[q])] = otp
        ELSE xlast.status = "UnknownOPK"

(***************************************************************************)
(* Properties of the wire format.                                          *)
(***************************************************************************)
\* C29: wire counters -- the previous-chain length and the message number
\* a receiver reads from a message are the sender's counters at the time
\* the message was written (DoubleRatchetAlgo.tsx: PN and Ns before the
\* increment; tweetnacl class: PN and the Ns it writes).
C29_WireCounters ==
  /\ (last.op = "encrypt" /\ last.status = "ok") =>
       LET h == sent[last.who][Len(sent[last.who])].header
       IN  h.n = last.pre.Ns /\ h.pn = last.pre.PN
  /\ llast.op = "encrypt" =>
       LET pl == lsent[llast.who][Len(lsent[llast.who])]
       IN  pl.ns = lib[llast.who].Ns /\ pl.pn = lib[llast.who].PN

(***************************************************************************)
(* Properties of the XOR helpers.                                          *)
(***************************************************************************)
\* C30: XOR helper round trip -- under a non-empty key decryptArrayBuffer
\* returns the bytes encryptArrayBuffer was given and decryptText the text
\* encryptText was given; with an empty or missing key each of the four
\* functions throws.
C30_XorRoundTrip ==
  /\ elast.op # "none" =>
       (elast.status = "KeyRequired" <=> elast.key = <<>>)
  /\ (elast.op \in {"decryptText", "decryptArrayBuffer"} /\ elast.status = "ok")
       => elast.out = elast.plain

(***************************************************************************)
(* SignComponent.  A press of the button runs handleSign of the current    *)
(* render: `message`, `signedMessages` and `keys` in its body are the      *)
(* constants of that render, whatever the setters do later.  The handler   *)
(* is suspended at `await handleGenerateKeys()` and at `await              *)
(* signMessage(...)`; other events run in between.                         *)
(***************************************************************************)
\* what the user may type into the textarea
SignTexts == {"", "hello", "world"}

\* onChange of the textarea
SetMessage(m) ==
  /\ sc.message # m
  /\ sc' = [sc EXCEPT !.message = m]
  /\ UNCHANGED <<sct, scout, ratchetVars, x3dhVars, compVars, libVars, uiVars, sigVars, xorVars>>

\* onClick of the button: handleSign up to its first await
PressSign ==
  /\ Len(sct) < MaxPresses
  /\ sct' = Append(sct, [pc |-> IF sc.keys = NULL THEN "generateKeyPair"
                               ELSE "signMessage",
                         keys |-> sc.keys, message |-> sc.message,
                         signedMessages |-> sc.signedMessages])
  /\ UNCHANGED <<sc, scout, ratchetVars, x3dhVars, compVars, libVars, uiVars, sigVars, xorVars>>

\* the promise call i waits for has resolved: the handler runs to its next
\* await, to its end, or to the exception it throws
ResumeSign(i) ==
  LET call == sct[i]
  IN  /\ call.pc \in {"generateKeyPair", "signMessage"}
      /\ IF call.pc = "generateKeyPair"
         THEN \* handleGenerateKeys: setKeys, onKeyPair; then line 58
              \* evaluates keys.privateKey on the keys of the call's render
              LET generatedKeys == generateKeyPair(Len(scout.onKeyPair) + 1)
              IN  /\ sc' = [sc EXCEPT !.keys = generatedKeys]
                  /\ scout' = [scout EXCEPT
                                 !.onKeyPair = Append(@, generatedKeys.publicKey)]
                  /\ sct' = [sct EXCEPT ![i].pc =
                               IF call.keys = NULL THEN "TypeError"
                               ELSE "signMessage"]
         ELSE LET newEntry ==
                    [message |-> call.message,
                     signature |-> SignComponent_signMessage(
                                     call.message, call.keys.privateKey)]
              IN  /\ sc' = [sc EXCEPT
                              !.signedMessages =
                                 Append(call.signedMessages, newEntry),
                              !.message = ""]
                  /\ scout' = [scout EXCEPT !.onSign = Append(@, newEntry)]
                  /\ sct' = [sct EXCEPT ![i].pc = "done"]
      /\ UNCHANGED <<ratchetVars, x3dhVars, compVars, libVars, uiVars, sigVars, xorVars>>

NextSign ==
  \/ \E m \in SignTexts : SetMessage(m)
  \/ PressSign
  \/ \E i \in 1..Len(sct) : ResumeSign(i)

SpecSign == Init /\ [][NextSign]_vars

(***************************************************************************)
(* Properties of calls that overlap, of replays, and of what a call leaves *)
(* alone.                                                                  *)
(***************************************************************************)
\* the component has only made encrypt calls, and all of them have returned
OnlyEncryptsAllDone ==
  \A i \in 1..Len(tasks) : tasks[i].kind = "encrypt" /\ tasks[i].pc = "done"

\* C31: overlapping encrypts -- when encrypt calls on one session interleave
\* at their await points, the messages still get different message keys and
\* different message numbers, and Ns ends as many higher as there were
\* calls, as if the calls had run one after the other.
C31_OverlappingEncrypts ==
  /\ \A i, j \in 1..Len(out) :
       i # j =>
         /\ out[i].ciphertext.mk # out[j].ciphertext.mk
         /\ out[i].header.dh = out[j].header.dh
              => out[i].header.n # out[j].header.n
  /\ OnlyEncryptsAllDone => smr.Ns = Len(tasks)

\* C32: no replay -- a message a session has decrypted successfully is never
\* decrypted successfully by that session a second time, whatever is
\* processed in between; this holds for both DoubleRatchet classes.
C32_NoReplay ==
  \A p \in Party :
    /\ \A i, j \in 1..Len(opened[p]) : i # j => opened[p][i] # opened[p][j]
    /\ \A i, j \in 1..Len(lopened[p]) : i # j => lopened[p][i] # lopened[p][j]

\* a payload that was opened before has been handed to decrypt again
C32_Witness ==
  /\ llast.op = "decrypt" /\ llast.idx > 0 /\ llast.status = "empty"
  /\ \E i \in 1..Len(lopened[llast.who]) :
       lopened[llast.who][i] = lsent[Peer(llast.who)][llast.idx]

\* the last call was a decrypt whose header carries the key stored as DHr
SameKeyDecrypt ==
  /\ last.op = "decrypt"
  /\ last.pre.dhr # NULLKEY /\ last.header.dh = last.pre.dhr

\* C33: same-key receive frame -- a decrypt whose header carries the DH
\* public key already stored as DHr never changes RK, DHs, DHr, CKs, Ns or
\* PN, whether it succeeds or fails; only CKr, Nr and the skipped-key store
\* may change.
C33_SameKeyFrame ==
  SameKeyDecrypt =>
    LET s == sess[last.who]
    IN  /\ s.rk = last.pre.rk
        /\ s.dhs = last.pre.dhs
        /\ s.dhr = last.pre.dhr
        /\ s.cks = last.pre.cks
        /\ s.Ns = last.pre.Ns
        /\ s.PN = last.pre.PN

\* such a decrypt ran on a session that had sent under its current key, and
\* stepped the receiving chain
C33_Witness ==
  /\ SameKeyDecrypt
  /\ last.pre.Ns > 0
  /\ sess[last.who].ckr # last.pre.ckr
  /\ sess[last.who].Nr = last.pre.Nr + 1

\* C34: send frame -- a successful encrypt changes only CKs (advanced one
\* KDF_CK step) and Ns (increased by exactly 1); RK, DHs, DHr, CKr, Nr, PN
\* and the skipped-key store are unchanged.
C34_SendFrame ==
  (last.op = "encrypt" /\ last.status = "ok") =>
    LET s == sess[last.who]
    IN  /\ s.cks = KDF_CK(last.pre.cks).chainKey
        /\ s.Ns = last.pre.Ns + 1
        /\ s.rk = last.pre.rk
        /\ s.dhs = last.pre.dhs
        /\ s.dhr = last.pre.dhr
        /\ s.ckr = last.pre.ckr
        /\ s.Nr = last.pre.Nr
        /\ s.PN = last.pre.PN
        /\ s.skipped = last.pre.skipped

\* a session that has a receiving chain, has received, holds skipped keys
\* and carries a previous-chain length has encrypted
C34_Witness ==
  /\ last.op = "encrypt" /\ last.status = "ok"
  /\ last.pre.ckr # NULL
  /\ last.pre.Nr > 0
  /\ last.pre.PN > 0
  /\ last.pre.skipped # NoSkipped

\* the last call was a decrypt that took the DH ratchet step
SteppedDecrypt ==
  /\ last.op = "decrypt"
  /\ last.pre.dhr = NULLKEY \/ last.header.dh # last.pre.dhr

\* C35: receive counter -- immediately after a successful decrypt of a
\* message with number n the receiver's Nr equals n + 1, and Nr never
\* decreases except when a DH ratchet step resets it to 0.
C35_ReceiveCounter ==
  /\ (last.op = "decrypt" /\ last.status = "ok")
       => sess[last.who].Nr = last.header.n + 1
  /\ last.op # "none"
       => \/ sess[last.who].Nr >= last.pre.Nr
          \/ SteppedDecrypt

\* C36: bounded work per message -- a single decrypt call terminates having
\* performed at most 2*MAX_SKIP + 1 chain-key derivations, whatever
\* previous-chain length and message number the header carries.
C36_BoundedWork ==
  last.op = "decrypt" =>
    decryptDerivations(last.pre, last.header) <= 2 * MAX_SKIP + 1

\* a decrypt ran that many derivations: MAX_SKIP to close the old chain,
\* MAX_SKIP to reach the message in the new one, one for the message
C36_Witness ==
  /\ last.op = "decrypt"
  /\ decryptDerivations(last.pre, last.header) = 2 * MAX_SKIP + 1
  /\ sess[last.who].Nr = MAX_SKIP + 1

\* C37: sign without keys -- pressing Sign while no key pair exists first
\* generates a key pair and then signs the current message with that new
\* pair, adding the signed entry to the list; the handler never uses an
\* absent key.
C37_SignWithoutKeys ==
  \A i \in 1..Len(sct) :
    sct[i].keys = NULL =>
      /\ sct[i].pc # "TypeError"
      /\ sct[i].pc # "generateKeyPair" =>
           \E k \in 1..Len(scout.onSign) :
             /\ scout.onSign[k].message = sct[i].message
             /\ \E n \in 1..Len(scout.onKeyPair) :
                  scout.onSign[k].signature =
                    SignComponent_signMessage(sct[i].message,
                                              generateKeyPair(n).privateKey)

====
